---- MODULE Spec2Model ----
(***************************************************************************)
(* lilmail: the key manager (internal/crypto, Manager) and the encrypted   *)
(* file cache (internal/cache, FileCache) as one state machine.            *)
(*                                                                         *)
(* Bytes are symbolic.  A byte whose value the program chose or parsed is  *)
(* [k |-> "raw", v |-> <<n>>].  The bytes AES-GCM produces are tokens that *)
(* remember what was sealed (the cipher's key, the nonce, the plaintext):  *)
(* Open succeeds exactly on an unmodified output of Seal under the same    *)
(* key, which is the guarantee of the AEAD.  Random draws (salts, raw      *)
(* keys, nonces) are fresh numbers: the model leaves out collisions of     *)
(* 64-bit and 96-bit random values.                                        *)
(***************************************************************************)
EXTENDS Integers, Sequences, FiniteSets, TLC

\* ------------------------------------------------------------------ bounds
MaxTime == 2        \* the clock runs 0..MaxTime
MaxKeys == 2        \* random salts GenerateKey may draw
MaxNonces == 2      \* random nonces Encrypt may draw
MaxTamper == 1      \* single-byte changes of a blob file by the environment
maxSize == 100      \* FileCache.maxSize (configuration)
ttl == 1            \* FileCache.ttl (configuration)
MaxRestarts == 1    \* times the process is started again on its directories
MaxWorkers == 2     \* workers NewBatchProcessor may be given
MaxBatchSize == 2   \* batchSize NewBatchProcessor may be given
MaxUIDs == 3        \* length of the UID list ProcessBatch may be given
MaxCalls == 2       \* calls of ProcessBatch on one BatchProcessor
MaxExp == 2         \* longest exp FileStorage.Set may be given

\* -------------------------------------------------------- program constants
nonceSize == 12
MasterSalt == 7
gcmTagSize == 16
idChars == 11
MasterMaterial == 99

Procs == {"p1", "p2"}
CacheKeys == {"a", "b"}

\* ------------------------------------------------------------------- bytes
Raw(n) == [k |-> "raw", v |-> <<n>>]

IsRaw(b) == b.k = "raw"

\* int(data[0]): the numeric value of a byte the program parses.
ByteVal(b) == IF IsRaw(b) THEN b.v[1] ELSE 255

RawSeq(ns) == [i \in 1..Len(ns) |-> Raw(ns[i])]

\* The payloads the mail layer stores, 30 bytes each, and the secret a
\* handler encrypts.
Payloads == {[i \in 1..30 |-> Raw(1)], [i \in 1..30 |-> Raw(2)]}

Secrets == {[i \in 1..4 |-> Raw(3)]}

\* ---------------------------------------------- key IDs (base64 of salt[:8])
\* The URL-safe base64 alphabet, as character codes.
B64Char(d) ==
    IF d < 26 THEN 65 + d
    ELSE IF d < 52 THEN 97 + (d - 26)
    ELSE IF d < 62 THEN 48 + (d - 52)
    ELSE IF d = 62 THEN 45 ELSE 95

RECURSIVE ShiftRight6(_, _)
ShiftRight6(x, n) == IF n = 0 THEN x ELSE ShiftRight6(x \div 64, n - 1)

\* base64.RawURLEncoding.EncodeToString(salt[:8]) for the 64-bit value s:
\* ten characters of six bits and one of the last four bits, no padding.
EncodeToString(s) ==
    [i \in 1..idChars |->
        Raw(B64Char(IF i < idChars
                    THEN ShiftRight6(s \div 16, (idChars - 1) - i) % 64
                    ELSE (s % 16) * 4))]

Colon == Raw(58)

\* ------------------------------------------------------------ cipher (GCM)
\* gcm.Seal(nonce, nonce, data, nil): nonce || ciphertext || tag.
Seal(key, n, pt) ==
    [i \in 1..nonceSize |-> [k |-> "nonce", v |-> <<n, i>>]]
    \o [i \in 1..Len(pt) |-> [k |-> "ct", v |-> <<key, n, i, pt[i].v[1]>>]]
    \o [i \in 1..gcmTagSize |-> [k |-> "tag", v |-> <<key, n, i, Len(pt)>>]]

\* gcm.Open(nil, nonce, ciphertext, nil): the plaintext, or an error when the
\* tag does not authenticate nonce and ciphertext under the cipher's key.
Open(key, nonce, ciphertext) ==
    LET m == Len(ciphertext) - gcmTagSize
    IN  IF m < 0 \/ nonce = <<>> THEN [ok |-> FALSE, pt |-> <<>>]
        ELSE IF nonce[1].k # "nonce" \/ \E i \in 1..m : ciphertext[i].k # "ct"
        THEN [ok |-> FALSE, pt |-> <<>>]
        ELSE LET pt == [i \in 1..m |-> Raw(ciphertext[i].v[4])]
             IN  IF nonce \o ciphertext = Seal(key, nonce[1].v[1], pt)
                 THEN [ok |-> TRUE, pt |-> pt]
                 ELSE [ok |-> FALSE, pt |-> <<>>]

\* ------------------------------------------------------------------- state
VARIABLES
    keys,         \* Manager.keys: key ID -> [Key, Active]
    keyFiles,     \* <keyDir>/<ID>.key: key ID -> the record, and the key that wraps it
    encFiles,     \* <keyDir>/*.enc: file name -> content
    keysW,        \* holder of keysMutex as a writer, "" when free
    salts,        \* random salts and raw keys drawn so far
    nonces,       \* random nonces drawn so far
    crashed,      \* the runtime stopped the process (unsynchronised map access, nil dereference)
    masterFile,   \* <keyDir>/master.key: salt || derived key
    masterKey,    \* Manager.masterKey
    aead,         \* Manager.gcm: nil, or the cipher built from the master key
    boot,         \* the last NewManager: its passphrase, what it found, how it ended
    index,        \* FileCache.index: logical key -> entry
    files,        \* <cacheDir>/<sha256(key)>: logical key -> blob file
    diskIndex,    \* <cacheDir>/index.json
    currentSize,  \* FileCache.currentSize
    idxW,         \* holder of indexMutex as a writer, "" when free
    now,          \* time.Now()
    pc,           \* where each goroutine stands
    loc,          \* its arguments and locals
    res,          \* what its last call returned
    issued,       \* the buffers Encrypt returned to handlers, with their plaintext
    fresh,        \* per logical key: the payload of the last successful Set, until k is touched again
    tampered,     \* per logical key: one byte of the blob Set wrote was changed on disk
    lastSweep,    \* what the last sweep that removed entries removed and kept, pass by pass
    tampers,      \* single-byte changes made so far
    idxR,         \* holders of indexMutex as readers
    sizeW,        \* holder of sizeMutex, "" when free
    pool,         \* the BatchProcessor, its Pool and the goroutines of ProcessBatch
    sess          \* the session FileStorage: its file, its mutex and its callers

lifeVars == <<masterFile, masterKey, aead, boot>>
mgrVars == <<keys, keyFiles, encFiles, keysW, salts, nonces, crashed, lifeVars>>
cacheVars == <<index, files, diskIndex, currentSize, idxW>>
procVars == <<pc, loc, res>>
ghostVars == <<issued, fresh, tampered, lastSweep>>
lockVars == <<idxR, sizeW>>
auxVars == <<pool, sess>>
vars == <<mgrVars, cacheVars, now, procVars, ghostVars, tampers, lockVars, auxVars>>

NoEntry == [present |-> FALSE, Size |-> 0, CreatedAt |-> 0, ExpiresAt |-> 0,
            Encrypted |-> FALSE]
NoFile == [exists |-> FALSE, data |-> <<>>]
NoFresh == [has |-> FALSE, P |-> <<>>, exp |-> 0]

\* index.json: absent, or what saveIndex wrote (json.Marshal of the index).
NoIndexFile == [exists |-> FALSE, entries |-> [k \in CacheKeys |-> NoEntry]]
saveIndex(idx) == [exists |-> TRUE, entries |-> idx]

Loc0 == [op |-> "", key |-> "", P |-> <<>>, data |-> <<>>, enc |-> FALSE,
         ret |-> "", gret |-> "", ak |-> <<>>, entry |-> NoEntry, rid |-> <<>>, newID |-> <<>>,
         callTime |-> 0, checkTime |-> 0, expect |-> NoFresh,
         tampered |-> FALSE, snap |-> {}, size |-> 0]

Res0 == [op |-> "", kind |-> "none", val |-> <<>>, key |-> "", arg |-> <<>>,
         found |-> FALSE, missing |-> FALSE,
         callTime |-> 0, checkTime |-> 0, entryExp |-> 0, expect |-> NoFresh,
         tampered |-> FALSE, unknown |-> FALSE,
         opened |-> FALSE, rid |-> <<>>, newID |-> <<>>, snap |-> {}]

\* ------------------------------------------------------------- key manager
\* m.gcm as NewManager leaves it, and before NewManager has set it.
NewGCM(key) == [built |-> TRUE, key |-> key]
NilGCM == [built |-> FALSE, key |-> 0]

\* The key of the Manager's AEAD.
gcm == aead.key

\* The passphrases NewManager is given: the operator's, none, another one.
Passwords == {"pw", "", "other"}

\* argon2.IDKey(password, salt, ...): a key that depends on both.
IDKey(password, salt) ==
    CASE password = "pw" -> MasterMaterial + salt - MasterSalt
      [] password = "" -> MasterMaterial + salt - MasterSalt - 1
      [] OTHER -> MasterMaterial + salt - MasterSalt - 2

\* initializeMasterKey: on the first run a random salt, the derived key and
\* the file salt||key; later the salt of the file and the key derived anew.
NoMasterFile == [exists |-> FALSE, salt |-> 0, key |-> 0]

initializeMasterKey(mf, password) ==
    IF ~mf.exists
    THEN [masterKey |-> IDKey(password, MasterSalt),
          masterFile |-> [exists |-> TRUE, salt |-> MasterSalt,
                          key |-> IDKey(password, MasterSalt)]]
    ELSE [masterKey |-> IDKey(password, mf.salt), masterFile |-> mf]

\* loadKeys: every file of the key directory but master.key is read and
\* handed to decryptWithMaster, which starts with m.gcm.NonceSize(); a
\* record that opens and parses is registered under its ID.
loadKeys(kf, ef, cipher) ==
    IF DOMAIN kf \cup DOMAIN ef = {}
    THEN [panic |-> FALSE, keys |-> <<>>]
    ELSE IF ~cipher.built
    THEN [panic |-> TRUE, keys |-> <<>>]
    ELSE [panic |-> FALSE,
          keys |-> [id \in {x \in DOMAIN kf : kf[x].wrappedBy = cipher.key}
                      |-> kf[id].rec]]

\* NewManager on a key directory: initializeMasterKey, loadKeys, and only
\* then the cipher of the master key in m.gcm.
NewManager(mf, kf, ef, password) ==
    LET im == initializeMasterKey(mf, password)
        lk == loadKeys(kf, ef, NilGCM)
    IN  [outcome |-> IF lk.panic THEN "panic" ELSE "ready",
         masterFile |-> im.masterFile,
         masterKey |-> im.masterKey,
         keys |-> lk.keys,
         aead |-> IF lk.panic THEN NilGCM ELSE NewGCM(im.masterKey),
         password |-> password,
         found |-> DOMAIN kf]

\* The process as the first NewManager, on an empty directory, leaves it.
FirstRun(password) == NewManager(NoMasterFile, <<>>, <<>>, password)

\* The test plaintext of verifyKey, "verification_test".
testData ==
    RawSeq(<<118, 101, 114, 105, 102, 105, 99, 97, 116, 105, 111, 110, 95,
             116, 101, 115, 116>>)

\* verifyKey: a seal/open round trip under the new raw key.
verifyKey(key) ==
    LET encrypted == Seal(key, 0, testData)
        opened == Open(key, SubSeq(encrypted, 1, nonceSize),
                       SubSeq(encrypted, nonceSize + 1, Len(encrypted)))
    IN  opened.ok /\ opened.pt = testData

\* The Key GenerateKey builds from its random draws.
NewKey(s) == [Key |-> s, Active |-> TRUE]

\* saveKey: the record wrapped by encryptWithMaster, and the map entry.
SavedRecord(key) == [rec |-> key, wrappedBy |-> gcm]

\* Encrypt's scan of m.keys for a key with Active set.
ActiveIDs(ks) == {id \in DOMAIN ks : ks[id].Active}

\* (mutant) the length byte counts itself as well as the key ID.
EncryptWithLengthOffByOne(id, n, data) ==
    <<Raw(Len(id) + 1)>> \o id \o Seal(gcm, n, data)

\* (mutant) the length byte in front of the key ID is left out.
EncryptWithNoLength(id, n, data) == id \o Seal(gcm, n, data)

\* Encrypt: [len(ID)] ID (nonce || ciphertext || tag), sealed by m.gcm.
EncryptWith(id, n, data) == <<Raw(Len(id))>> \o id \o Seal(gcm, n, data)

\* Decrypt returns ErrDecryptFailed before it takes the key lock.
DecryptPre(data) ==
    IF Len(data) < 1 THEN TRUE ELSE Len(data) < 1 + ByteVal(data[1])

PrefixID(data) == SubSeq(data, 2, 1 + ByteVal(data[1]))

\* (mutant) the lookup of the key ID in m.keys is left out.
DecryptNoLookup(ks, data) ==
    IF DecryptPre(data)
    THEN [kind |-> "DecryptFailed", pt |-> <<>>, opened |-> FALSE]
    ELSE LET idLen == ByteVal(data[1])
             encryptedData == SubSeq(data, 2 + idLen, Len(data))
         IN  IF Len(encryptedData) < nonceSize
             THEN [kind |-> "InvalidNonce", pt |-> <<>>, opened |-> FALSE]
             ELSE LET o == Open(gcm, SubSeq(encryptedData, 1, nonceSize),
                                SubSeq(encryptedData, nonceSize + 1,
                                       Len(encryptedData)))
                  IN  IF o.ok
                      THEN [kind |-> "Ok", pt |-> o.pt, opened |-> TRUE]
                      ELSE [kind |-> "DecryptFailed", pt |-> <<>>, opened |-> TRUE]

\* (mutant) the length of the nonce is not checked: a short rest goes to
\* gcm.Open and fails there.
DecryptNoNonceCheck(ks, data) ==
    IF DecryptPre(data)
    THEN [kind |-> "DecryptFailed", pt |-> <<>>, opened |-> FALSE]
    ELSE LET idLen == ByteVal(data[1])
             keyID == SubSeq(data, 2, 1 + idLen)
             encryptedData == SubSeq(data, 2 + idLen, Len(data))
         IN  IF keyID \notin DOMAIN ks
             THEN [kind |-> "KeyNotFound", pt |-> <<>>, opened |-> FALSE]
             ELSE IF Len(encryptedData) < nonceSize
             THEN [kind |-> "DecryptFailed", pt |-> <<>>, opened |-> TRUE]
             ELSE LET o == Open(gcm, SubSeq(encryptedData, 1, nonceSize),
                                SubSeq(encryptedData, nonceSize + 1,
                                       Len(encryptedData)))
                  IN  IF o.ok
                      THEN [kind |-> "Ok", pt |-> o.pt, opened |-> TRUE]
                      ELSE [kind |-> "DecryptFailed", pt |-> <<>>, opened |-> TRUE]

\* Decrypt: the error or the plaintext, and whether gcm.Open was called.
Decrypt(ks, data) ==
    IF DecryptPre(data)
    THEN [kind |-> "DecryptFailed", pt |-> <<>>, opened |-> FALSE]
    ELSE LET idLen == ByteVal(data[1])
             keyID == SubSeq(data, 2, 1 + idLen)
             encryptedData == SubSeq(data, 2 + idLen, Len(data))
         IN  IF keyID \notin DOMAIN ks
             THEN [kind |-> "KeyNotFound", pt |-> <<>>, opened |-> FALSE]
             ELSE IF Len(encryptedData) < nonceSize
             THEN [kind |-> "InvalidNonce", pt |-> <<>>, opened |-> FALSE]
             ELSE LET o == Open(gcm, SubSeq(encryptedData, 1, nonceSize),
                                SubSeq(encryptedData, nonceSize + 1,
                                       Len(encryptedData)))
                  IN  IF o.ok
                      THEN [kind |-> "Ok", pt |-> o.pt, opened |-> TRUE]
                      ELSE [kind |-> "DecryptFailed", pt |-> <<>>, opened |-> TRUE]

\* strings.HasPrefix(string(encrypted), keyID+":")
HasPrefix(data, id) ==
    /\ Len(data) >= Len(id) + 1
    /\ SubSeq(data, 1, Len(id) + 1) = id \o <<Colon>>

\* loadEncryptedData: the *.enc files of the key directory tagged keyID.
loadEncryptedData(ef, keyID) == {f \in DOMAIN ef : HasPrefix(ef[f], keyID)}

\* (mutant) the old key is dropped from m.keys instead of kept inactive.
DropOldKey(ks, id) == [x \in DOMAIN ks \ {id} |-> ks[x]]

\* (mutant) the old key is left Active in m.keys.
KeepOldKeyActive(ks, id) == ks

\* RotateKey's last step: oldKey.Active = false, then saveKey(oldKey).
RetireOldKey(ks, id) == [ks EXCEPT ![id].Active = FALSE]

\* -------------------------------------------------------------- file cache
\* (mutant) the instant of expiry counts as after it.
NotBefore(t, u) == t >= u

\* (mutant) Before in place of After.
Before(t, u) == t < u

\* time.Now().After(entry.ExpiresAt)
After(t, u) == t > u

\* (mutant) only a blob larger than the whole cache is refused.
AdmittedAlone(cur, newSize) == ~(newSize > maxSize)

\* (mutant) a blob that fills the cache exactly is refused too.
AdmittedBelow(cur, newSize) == ~(cur + newSize >= maxSize)

\* Set's admission test: c.currentSize+newSize > c.maxSize is refused.
Admitted(cur, newSize) == ~(cur + newSize > maxSize)

\* The index entry Set builds.  Its two consecutive time.Now() reads fall
\* into one instant of the model's clock.
NewEntry(newSize, t, encrypted) ==
    [present |-> TRUE, Size |-> newSize, CreatedAt |-> t, ExpiresAt |-> t + ttl,
     Encrypted |-> encrypted]

\* delete(c.index, key)
RemoveKeys(idx, K) == [k \in DOMAIN idx |-> IF k \in K THEN NoEntry ELSE idx[k]]

\* os.Remove of the blobs of the keys K
RemoveFiles(fs, K) == [k \in DOMAIN fs |-> IF k \in K THEN NoFile ELSE fs[k]]

RECURSIVE SumSizes(_, _)
SumSizes(idx, K) ==
    IF K = {} THEN 0
    ELSE LET k == CHOOSE x \in K : TRUE
         IN  idx[k].Size + SumSizes(idx, K \ {k})

Present(idx) == {k \in DOMAIN idx : idx[k].present}

\* cleanup, first pass: the entries with now.After(entry.ExpiresAt).
ExpiredKeys(idx, t) == {k \in Present(idx) : After(t, idx[k].ExpiresAt)}

\* (mutant) the comparison the other way round: newest first.
Newer(idx, a, b) == idx[a].CreatedAt > idx[b].CreatedAt

\* The comparison cleanup hands to sort.Slice.
Less(idx, a, b) == idx[a].CreatedAt < idx[b].CreatedAt

\* What sort.Slice may return for the keys K: any order of them in which no
\* item is Less than one before it (the sort is not stable).
SortedOrders(idx, K) ==
    {o \in [1..Cardinality(K) -> K] :
        /\ \A i, j \in DOMAIN o : i # j => o[i] # o[j]
        /\ \A i, j \in DOMAIN o : i < j => ~Less(idx, o[j], o[i])}

\* (mutant) the size pass removes nothing.
EvictNone(idx, items, i, totalSize) == {}

\* (mutant) the size pass never looks at totalSize again: it removes every
\* item.
RECURSIVE EvictAll(_, _, _, _)
EvictAll(idx, items, i, totalSize) ==
    IF i > Len(items) THEN {}
    ELSE {items[i]} \cup EvictAll(idx, items, i + 1, totalSize)

\* cleanup, second pass: remove items in order until totalSize <= maxSize.
RECURSIVE EvictOldest(_, _, _, _)
EvictOldest(idx, items, i, totalSize) ==
    IF i > Len(items) \/ totalSize <= maxSize THEN {}
    ELSE {items[i]} \cup
         EvictOldest(idx, items, i + 1, totalSize - idx[items[i]].Size)

\* ---------------------------------------------- worker pool, session store
\* No BatchProcessor has been made yet.
NoBatchProcessor ==
    [made |-> FALSE, workers |-> 0, batchSize |-> 0,
     jobsClosed |-> FALSE, resultsClosed |-> FALSE, doneClosed |-> FALSE,
     wg |-> 0, worker |-> [w \in 1..MaxWorkers |-> "none"],
     pc |-> "idle", calls |-> 0, n |-> 0, i |-> 0, end |-> 0, sent |-> 0,
     got |-> 0]

\* NewBatchProcessor, with the Pool NewPool makes for it: three unbuffered
\* channels, open, and no worker started.
NewBatchProcessor(workers, batchSize) ==
    [NoBatchProcessor EXCEPT !.made = TRUE, !.workers = workers,
                             !.batchSize = batchSize]

\* A session file that does not exist.
NoSession == [exists |-> FALSE, ExpiresAt |-> 0]

\* NewFileStorage on an empty directory: no session file, the mutex free, no
\* caller inside.
NewFileStorage ==
    [file |-> NoSession, readers |-> {}, writer |-> "",
     pc |-> [p \in Procs |-> "idle"], op |-> [p \in Procs |-> "none"],
     exp |-> [p \in Procs |-> 0], ret |-> [p \in Procs |-> "none"]]

\* ---------------------------------------------------------------- initial
\* The cache directory NewFileCache finds: empty, or the index and plain
\* blobs an earlier instance with a larger maxSize left there.
OldBlob(n) == [i \in 1..n |-> Raw(1)]

OldEntry(n, t) ==
    [present |-> TRUE, Size |-> n, CreatedAt |-> t, ExpiresAt |-> t + ttl,
     Encrypted |-> FALSE]

InitDirs ==
    {[disk |-> NoIndexFile, fs |-> [k \in CacheKeys |-> NoFile]],
     [disk |-> saveIndex([k \in CacheKeys |-> IF k = "a" THEN OldEntry(60, -1)
                                                         ELSE OldEntry(60, 0)]),
      fs |-> [k \in CacheKeys |-> [exists |-> TRUE, data |-> OldBlob(60)]]],
     [disk |-> saveIndex([k \in CacheKeys |-> OldEntry(60, 0)]),
      fs |-> [k \in CacheKeys |-> [exists |-> TRUE, data |-> OldBlob(60)]]]}

\* (mutant) loadIndex keeps every entry of index.json, blob or no blob.
loadIndexWithoutStat(disk, fs) ==
    IF ~disk.exists
    THEN [k \in CacheKeys |-> NoEntry]
    ELSE disk.entries

\* loadIndex: nothing to load when index.json does not exist; otherwise keep
\* the entries whose blob exists (their sizes are added up).
loadIndex(disk, fs) ==
    IF ~disk.exists
    THEN [k \in CacheKeys |-> NoEntry]
    ELSE [k \in CacheKeys |-> IF disk.entries[k].present /\ fs[k].exists
                              THEN disk.entries[k] ELSE NoEntry]

\* (mutant) NewFileCache writes index.json before it returns.
NewFileCacheSavesIndex(disk, fs) ==
    LET idx == loadIndex(disk, fs)
    IN  [index |-> idx,
         currentSize |-> SumSizes(idx, Present(idx)),
         diskIndex |-> saveIndex(idx),
         files |-> fs]

\* NewFileCache: the directory made if need be, the index loaded, the size
\* counter summed from it; nothing is written.
NewFileCache(disk, fs) ==
    LET idx == loadIndex(disk, fs)
    IN  [index |-> idx,
         currentSize |-> SumSizes(idx, Present(idx)),
         diskIndex |-> disk,
         files |-> fs]

InitManager(password) ==
    LET m == FirstRun(password)
    IN  /\ keys = m.keys
        /\ keyFiles = <<>>
        /\ encFiles = <<>>
        /\ keysW = ""
        /\ salts = 0
        /\ nonces = 0
        /\ crashed = (m.outcome = "panic")
        /\ masterFile = m.masterFile
        /\ masterKey = m.masterKey
        /\ aead = m.aead
        /\ boot = [runs |-> 1, password |-> m.password, outcome |-> m.outcome,
                   found |-> m.found]

\* No lock held, no call under way, the clock at 0.
InitRest ==
    /\ idxW = ""
    /\ now = 0
    /\ pc = [p \in Procs |-> "idle"]
    /\ loc = [p \in Procs |-> Loc0]
    /\ res = [p \in Procs |-> Res0]
    /\ issued = {}
    /\ fresh = [k \in CacheKeys |-> NoFresh]
    /\ tampered = [k \in CacheKeys |-> FALSE]
    /\ lastSweep = [evicted |-> {}, kept |-> {}, at |-> 0, gone |-> {}, stay |-> {}]
    /\ tampers = 0
    /\ idxR = {}
    /\ sizeW = ""
    /\ pool = NoBatchProcessor
    /\ sess = NewFileStorage

Init ==
    /\ InitManager("pw")
    /\ \E dir \in InitDirs :
          LET c == NewFileCache(dir.disk, dir.fs)
          IN  /\ index = c.index
              /\ files = c.files
              /\ diskIndex = c.diskIndex
              /\ currentSize = c.currentSize
    /\ InitRest

\* The same on an empty cache directory.
InitEmptyDir ==
    /\ InitManager("pw")
    /\ LET c == NewFileCache(NoIndexFile, [k \in CacheKeys |-> NoFile])
       IN  /\ index = c.index
           /\ files = c.files
           /\ diskIndex = c.diskIndex
           /\ currentSize = c.currentSize
    /\ InitRest

\* ------------------------------------------------------------- bookkeeping
\* The locals after a step of p that touched the keys K: p's are lp, and a Get
\* of a key of K that is under way no longer follows its Set undisturbed.
Locs(p, lp, K) ==
    [q \in Procs |->
        IF q = p THEN lp
        ELSE IF loc[q].op = "Get" /\ loc[q].key \in K
        THEN [loc[q] EXCEPT !.expect = NoFresh]
        ELSE loc[q]]

Forget(K) == [k \in CacheKeys |-> IF k \in K THEN NoFresh ELSE fresh[k]]

\* p returns r: the caller holds the result until it goes on (Done).
Return(p, r, K) ==
    /\ pc' = [pc EXCEPT ![p] = "ret"]
    /\ loc' = Locs(p, Loc0, K)
    /\ res' = [res EXCEPT ![p] = r]

Idle(p) == ~crashed /\ pc[p] = "idle"

At(p, l) == ~crashed /\ pc[p] = l

\* ----------------------------------------------------- key manager: steps
\* m.keys[key.ID] = key
RegisterKey(ks, id, key) == (id :> key) @@ ks

\* delete(m.keys, id)
UnregisterKey(ks, id) == [x \in DOMAIN ks \ {id} |-> ks[x]]

\* GenerateKey: random raw key and salt, the self test, the ID from the salt,
\* then saveKey (the wrapped record on disk, the key in m.keys).  It takes no
\* lock: RotateKey calls it holding keysMutex, Encrypt calls it holding none.
GenerateKey(p) ==
    /\ At(p, "gen")
    /\ salts < MaxKeys
    /\ LET s == salts + 1
           id == EncodeToString(s)
           newKey == NewKey(s)
       IN  /\ verifyKey(newKey.Key)
           /\ salts' = s
           /\ keyFiles' = (id :> SavedRecord(newKey)) @@ keyFiles
           /\ keys' = RegisterKey(keys, id, newKey)
           /\ IF loc[p].gret = "enc"
              THEN /\ pc' = [pc EXCEPT ![p] = "enc_seal"]
                   /\ loc' = [loc EXCEPT ![p].ak = id]
                   /\ UNCHANGED res
              ELSE IF loc[p].gret = "rot"
              THEN /\ pc' = [pc EXCEPT ![p] = "rot_reenc"]
                   /\ loc' = [loc EXCEPT ![p].newID = id]
                   /\ UNCHANGED res
              ELSE Return(p, [Res0 EXCEPT !.op = "GenerateKey", !.kind = "Ok",
                                          !.newID = id], {})
    /\ UNCHANGED <<encFiles, keysW, nonces, crashed, lifeVars, cacheVars, now, ghostVars,
                   tampers, lockVars, auxVars>>

GenerateKeyCall(p) ==
    /\ Idle(p)
    /\ pc' = [pc EXCEPT ![p] = "gen"]
    /\ loc' = [loc EXCEPT ![p] = [Loc0 EXCEPT !.op = "GenerateKey",
                                              !.gret = "direct"]]
    /\ res' = [res EXCEPT ![p] = Res0]
    /\ UNCHANGED <<mgrVars, cacheVars, now, ghostVars, tampers, lockVars, auxVars>>

\* Encrypt, called by a handler.
EncryptCall(p, data) ==
    /\ Idle(p)
    /\ pc' = [pc EXCEPT ![p] = "enc_find"]
    /\ loc' = [loc EXCEPT ![p] = [Loc0 EXCEPT !.op = "Encrypt", !.P = data,
                                              !.data = data, !.ret = "direct"]]
    /\ res' = [res EXCEPT ![p] = Res0]
    /\ UNCHANGED <<mgrVars, cacheVars, now, ghostVars, tampers, lockVars, auxVars>>

\* (mutant) Encrypt generates a key on every call.
EncryptFindAlwaysGenerates(p) ==
    /\ At(p, "enc_find")
    /\ keysW = ""
    /\ pc' = [pc EXCEPT ![p] = "gen"]
    /\ loc' = [loc EXCEPT ![p].gret = "enc"]
    /\ UNCHANGED <<mgrVars, cacheVars, now, res, ghostVars, tampers, lockVars, auxVars>>

\* Encrypt, under RLock: the first Active key the map iteration meets.
EncryptFind(p) ==
    /\ At(p, "enc_find")
    /\ keysW = ""
    /\ IF ActiveIDs(keys) = {}
       THEN /\ pc' = [pc EXCEPT ![p] = "gen"]
            /\ loc' = [loc EXCEPT ![p].gret = "enc"]
       ELSE \E id \in ActiveIDs(keys) :
               /\ pc' = [pc EXCEPT ![p] = "enc_seal"]
               /\ loc' = [loc EXCEPT ![p].ak = id]
    /\ UNCHANGED <<mgrVars, cacheVars, now, res, ghostVars, tampers, lockVars, auxVars>>

\* Encrypt: a random nonce, m.gcm.Seal, the key ID in front.
EncryptSeal(p) ==
    /\ At(p, "enc_seal")
    /\ nonces < MaxNonces
    /\ LET n == nonces + 1
           result == EncryptWith(loc[p].ak, n, loc[p].data)
       IN  /\ nonces' = n
           /\ IF loc[p].ret = "set"
              THEN /\ pc' = [pc EXCEPT ![p] = "set_body"]
                   /\ loc' = [loc EXCEPT ![p].data = result]
                   /\ UNCHANGED <<res, issued>>
              ELSE /\ issued' = issued \cup {[ct |-> result, pt |-> loc[p].data]}
                   /\ Return(p, [Res0 EXCEPT !.op = "Encrypt", !.kind = "Ok",
                                              !.val = result], {})
    /\ UNCHANGED <<keys, keyFiles, encFiles, keysW, salts, crashed, lifeVars, cacheVars,
                   now, fresh, tampered, lastSweep, tampers, lockVars, auxVars>>

\* The buffers a caller may hand to Decrypt: what Encrypt returned, the same
\* under another key ID, and the same cut short (after the key ID, inside the
\* key ID, one byte before the end of the nonce), and the empty buffer.
Retag(ct, id) ==
    <<Raw(Len(id))>> \o id \o SubSeq(ct, 2 + ByteVal(ct[1]), Len(ct))

DecryptInputs ==
    LET cts == {c.ct : c \in issued}
        tagged == cts \cup {Retag(ct, EncodeToString(s)) :
                               ct \in cts, s \in 1..(MaxKeys + 1)}
    IN  tagged \cup {SubSeq(ct, 1, 1 + idChars) : ct \in tagged}
               \cup {SubSeq(ct, 1, idChars) : ct \in cts}
               \cup {SubSeq(ct, 1, idChars + nonceSize) : ct \in cts}
               \cup {<<>>}

\* Decrypt, called by a handler.  The key lookup is under RLock.
DecryptCall(p, data) ==
    /\ Idle(p)
    /\ (IF DecryptPre(data) THEN TRUE ELSE keysW = "")
    /\ LET d == Decrypt(keys, data)
       IN  Return(p, [Res0 EXCEPT !.op = "Decrypt", !.kind = d.kind, !.val = d.pt,
                                  !.arg = data,
                                  !.opened = d.opened,
                                  !.unknown = /\ ~DecryptPre(data)
                                              /\ PrefixID(data) \notin DOMAIN keys],
                  {})
    /\ UNCHANGED <<mgrVars, cacheVars, now, ghostVars, tampers, lockVars, auxVars>>

\* The ciphertext the program holds and can decrypt: buffers Encrypt returned
\* and the blobs of encrypted cache entries.
Decryptable ==
    LET blobs == {c.ct : c \in issued}
                 \cup {files[k].data : k \in {x \in CacheKeys :
                            index[x].present /\ index[x].Encrypted /\ files[x].exists}}
    IN  {[ct |-> b, pt |-> Decrypt(keys, b).pt] :
            b \in {x \in blobs : Decrypt(keys, x).kind = "Ok"}}

\* RotateKey: Lock, look the old key up.
RotateKeyCall(p, keyID) ==
    /\ Idle(p)
    /\ keysW = ""
    /\ IF keyID \notin DOMAIN keys
       THEN /\ Return(p, [Res0 EXCEPT !.op = "RotateKey", !.kind = "KeyNotFound",
                                      !.rid = keyID], {})
            /\ UNCHANGED keysW
       ELSE /\ keysW' = p
            /\ pc' = [pc EXCEPT ![p] = "gen"]
            /\ loc' = [loc EXCEPT ![p] = [Loc0 EXCEPT !.op = "RotateKey",
                                                      !.rid = keyID, !.gret = "rot",
                                                      !.snap = Decryptable]]
            /\ res' = [res EXCEPT ![p] = Res0]
    /\ UNCHANGED <<keys, keyFiles, encFiles, salts, nonces, crashed, lifeVars, cacheVars,
                   now, ghostVars, tampers, lockVars, auxVars>>

\* RotateKey after GenerateKey: loadEncryptedData, reencryptData, and on
\* success the old key is retired and saved.  reencryptData calls Decrypt,
\* which returns ErrDecryptFailed before locking or asks for the read lock
\* while this goroutine holds the write lock.
RotateKeyReencrypt(p) ==
    /\ At(p, "rot_reenc")
    /\ LET oldData == loadEncryptedData(encFiles, loc[p].rid)
       IN  IF oldData = {}
           THEN /\ keys' = RetireOldKey(keys, loc[p].rid)
                /\ keyFiles' = (loc[p].rid :> SavedRecord(
                                    [keys[loc[p].rid] EXCEPT !.Active = FALSE]))
                                @@ keyFiles
                /\ keysW' = ""
                /\ Return(p, [Res0 EXCEPT !.op = "RotateKey", !.kind = "Ok",
                                           !.rid = loc[p].rid,
                                           !.newID = loc[p].newID,
                                           !.snap = loc[p].snap], {})
           ELSE \E f \in oldData :
                  IF DecryptPre(encFiles[f])
                  THEN /\ keys' = UnregisterKey(keys, loc[p].newID)
                       /\ keysW' = ""
                       /\ Return(p, [Res0 EXCEPT !.op = "RotateKey",
                                                  !.kind = "RotationFailed",
                                                  !.rid = loc[p].rid,
                                                  !.newID = loc[p].newID], {})
                       /\ UNCHANGED keyFiles
                  ELSE /\ pc' = [pc EXCEPT ![p] = "rot_blocked"]
                       /\ UNCHANGED <<keys, keyFiles, keysW, loc, res>>
    /\ UNCHANGED <<encFiles, salts, nonces, crashed, lifeVars, cacheVars, now, ghostVars,
                   tampers, lockVars, auxVars>>

\* Close's loop over m.keys: every byte of every key.Key set to 0.
ZeroKeys(ks) == [id \in DOMAIN ks |-> [ks[id] EXCEPT !.Key = 0]]

\* Close: the bytes of m.masterKey set to 0, no lock held.
CloseCall(p) ==
    /\ Idle(p)
    /\ masterKey' = 0
    /\ pc' = [pc EXCEPT ![p] = "close_lock"]
    /\ loc' = [loc EXCEPT ![p] = [Loc0 EXCEPT !.op = "Close"]]
    /\ res' = [res EXCEPT ![p] = Res0]
    /\ UNCHANGED <<keys, keyFiles, encFiles, keysW, salts, nonces, crashed,
                   masterFile, aead, boot, cacheVars, now, ghostVars, tampers, lockVars, auxVars>>

\* Close: keysMutex.Lock and the loop over m.keys.
CloseKeys(p) ==
    /\ At(p, "close_lock")
    /\ keysW = ""
    /\ keysW' = p
    /\ keys' = ZeroKeys(keys)
    /\ pc' = [pc EXCEPT ![p] = "close_ret"]
    /\ UNCHANGED <<keyFiles, encFiles, salts, nonces, crashed, lifeVars,
                   cacheVars, now, loc, res, ghostVars, tampers, lockVars, auxVars>>

\* Close returns nil; the deferred Unlock.
CloseReturn(p) ==
    /\ At(p, "close_ret")
    /\ keysW' = ""
    /\ Return(p, [Res0 EXCEPT !.op = "Close", !.kind = "Ok"], {})
    /\ UNCHANGED <<keys, keyFiles, encFiles, salts, nonces, crashed, lifeVars,
                   cacheVars, now, ghostVars, tampers, lockVars, auxVars>>

\* A goroutine whose next step reads or writes m.keys.
TouchesKeys(q) ==
    \/ pc[q] \in {"gen", "rot_reenc"}
    \/ pc[q] \in {"enc_find", "get_dec", "close_lock"} /\ keysW = ""

\* GenerateKey under Encrypt writes m.keys with no lock held.  When another
\* goroutine is at the map at the same time the Go runtime may end the
\* process ("concurrent map writes"); otherwise the accesses happen one
\* after the other, as the other steps have it.
ConcurrentMapAccess ==
    /\ ~crashed
    /\ \E p, q \in Procs :
          /\ p # q
          /\ pc[p] = "gen" /\ keysW # p
          /\ TouchesKeys(q)
    /\ crashed' = TRUE
    /\ UNCHANGED <<keys, keyFiles, encFiles, keysW, salts, nonces, lifeVars, cacheVars,
                   now, procVars, ghostVars, tampers, lockVars, auxVars>>

\* The environment puts a file <name>.enc, tagged "<keyID>:", into the key
\* directory: shorter than Decrypt's length prefix asks for, or long enough.
EncFileContents ==
    {EncodeToString(s) \o <<Colon>> : s \in 1..MaxKeys}
    \cup {EncodeToString(s) \o <<Colon>>
            \o [i \in 1..(ByteVal(EncodeToString(s)[1]) - idChars) |-> Raw(0)] :
          s \in 1..MaxKeys}

PutEncFile(content) ==
    /\ ~crashed
    /\ encFiles = <<>>
    /\ SubSeq(content, 1, idChars) \in DOMAIN keys
    /\ encFiles' = ("data.enc" :> content)
    /\ UNCHANGED <<keys, keyFiles, keysW, salts, nonces, crashed, lifeVars, cacheVars, now,
                   procVars, ghostVars, tampers, lockVars, auxVars>>

\* The process ends and is started again: NewManager with some passphrase on
\* the key directory as it is, NewFileCache on the cache directory as it is.
\* A nil dereference in NewManager ends the new process before it serves.
Restart(password) ==
    /\ boot.runs <= MaxRestarts
    /\ LET m == NewManager(masterFile, keyFiles, encFiles, password)
       IN  /\ keys' = m.keys
           /\ masterFile' = m.masterFile
           /\ masterKey' = m.masterKey
           /\ aead' = m.aead
           /\ crashed' = (m.outcome = "panic")
           /\ boot' = [runs |-> boot.runs + 1, password |-> m.password,
                       outcome |-> m.outcome, found |-> m.found]
    /\ keysW' = ""
    /\ idxW' = ""
    /\ idxR' = {}
    /\ sizeW' = ""
    /\ LET c == NewFileCache(diskIndex, files)
       IN  /\ index' = c.index
           /\ currentSize' = c.currentSize
    /\ pc' = [p \in Procs |-> "idle"]
    /\ loc' = [p \in Procs |-> Loc0]
    /\ res' = [p \in Procs |-> Res0]
    /\ UNCHANGED <<keyFiles, encFiles, salts, nonces, files, diskIndex, now,
                   ghostVars, tampers, auxVars>>

\* ------------------------------------------------------- file cache: steps
\* Set: indexMutex.Lock, held until Set returns.
SetCall(p, k, data, encrypted) ==
    /\ Idle(p)
    /\ idxW = ""
    /\ idxW' = p
    /\ pc' = [pc EXCEPT ![p] = IF encrypted THEN "enc_find" ELSE "set_body"]
    /\ loc' = [loc EXCEPT ![p] = [Loc0 EXCEPT !.op = "Set", !.key = k, !.P = data,
                                              !.data = data, !.enc = encrypted,
                                              !.ret = "set"]]
    /\ res' = [res EXCEPT ![p] = Res0]
    /\ UNCHANGED <<mgrVars, index, files, diskIndex, currentSize, now, ghostVars,
                   tampers, lockVars, auxVars>>

\* Set after the encryption: the admission test, then the blob, the index
\* entry, the size counter and saveIndex.
SetBody(p) ==
    /\ At(p, "set_body")
    /\ LET k == loc[p].key
           data == loc[p].data
           newSize == Len(data)
       IN  IF ~Admitted(currentSize, newSize)
           THEN /\ Return(p, [Res0 EXCEPT !.op = "Set", !.kind = "SizeExceeded",
                                          !.key = k], {})
                /\ UNCHANGED <<index, files, diskIndex, currentSize, fresh, tampered>>
           ELSE /\ files' = [files EXCEPT ![k] = [exists |-> TRUE, data |-> data]]
                /\ index' = [index EXCEPT ![k] = NewEntry(newSize, now, loc[p].enc)]
                /\ currentSize' = currentSize + newSize
                /\ diskIndex' = saveIndex(index')
                /\ fresh' = [fresh EXCEPT ![k] = [has |-> TRUE, P |-> loc[p].P,
                                                  exp |-> now + ttl]]
                /\ tampered' = [tampered EXCEPT ![k] = FALSE]
                /\ Return(p, [Res0 EXCEPT !.op = "Set", !.kind = "Ok", !.key = k],
                          {k})
    /\ idxW' = ""
    /\ UNCHANGED <<mgrVars, now, issued, lastSweep, tampers, lockVars, auxVars>>

\* (mutant) Delete returns without saveIndex.
DeleteBodyWithoutSave(k) ==
    IF ~index[k].present
    THEN UNCHANGED <<index, files, diskIndex, currentSize>>
    ELSE /\ files' = RemoveFiles(files, {k})
         /\ currentSize' = currentSize - index[k].Size
         /\ index' = RemoveKeys(index, {k})
         /\ diskIndex' = diskIndex

\* (mutant) Delete leaves the size counter as it is.
DeleteBodyKeepsSize(k) ==
    IF ~index[k].present
    THEN UNCHANGED <<index, files, diskIndex, currentSize>>
    ELSE /\ files' = RemoveFiles(files, {k})
         /\ currentSize' = currentSize
         /\ index' = RemoveKeys(index, {k})
         /\ diskIndex' = saveIndex(index')

\* Delete's body, run with indexMutex held.
DeleteBody(k) ==
    IF ~index[k].present
    THEN UNCHANGED <<index, files, diskIndex, currentSize>>
    ELSE /\ files' = RemoveFiles(files, {k})
         /\ currentSize' = currentSize - index[k].Size
         /\ index' = RemoveKeys(index, {k})
         /\ diskIndex' = saveIndex(index')

DeleteCall(p, k) ==
    /\ Idle(p)
    /\ idxW = ""
    /\ DeleteBody(k)
    /\ fresh' = Forget({k})
    /\ Return(p, [Res0 EXCEPT !.op = "Delete", !.kind = "Ok", !.key = k,
                               !.found = index[k].present,
                               !.missing = ~files[k].exists], {k})
    /\ UNCHANGED <<mgrVars, idxW, now, issued, tampered, lastSweep,
                   tampers, lockVars, auxVars>>

\* (mutant) Clear resets the index and leaves the size counter.
ClearCallKeepsSize(p) ==
    /\ Idle(p)
    /\ idxW = ""
    /\ files' = RemoveFiles(files, CacheKeys)
    /\ index' = [k \in CacheKeys |-> NoEntry]
    /\ currentSize' = currentSize
    /\ diskIndex' = saveIndex(index')
    /\ fresh' = Forget(CacheKeys)
    /\ Return(p, [Res0 EXCEPT !.op = "Clear", !.kind = "Ok",
                               !.found = Present(index) # {}], CacheKeys)
    /\ UNCHANGED <<mgrVars, idxW, now, issued, tampered, lastSweep,
                   tampers, lockVars, auxVars>>

\* Clear: the directory removed and made again, index and size reset.
ClearCall(p) ==
    /\ Idle(p)
    /\ idxW = ""
    /\ files' = RemoveFiles(files, CacheKeys)
    /\ index' = [k \in CacheKeys |-> NoEntry]
    /\ currentSize' = 0
    /\ diskIndex' = saveIndex(index')
    /\ fresh' = Forget(CacheKeys)
    /\ Return(p, [Res0 EXCEPT !.op = "Clear", !.kind = "Ok",
                               !.found = Present(index) # {}], CacheKeys)
    /\ UNCHANGED <<mgrVars, idxW, now, issued, tampered, lastSweep,
                   tampers, lockVars, auxVars>>

\* Get: the index lookup under RLock.
GetCall(p, k) ==
    /\ Idle(p)
    /\ idxW = ""
    /\ IF ~index[k].present
       THEN Return(p, [Res0 EXCEPT !.op = "Get", !.kind = "NotFound", !.key = k,
                                   !.callTime = now, !.expect = fresh[k]], {})
       ELSE /\ pc' = [pc EXCEPT ![p] = "get_check"]
            /\ loc' = [loc EXCEPT ![p] = [Loc0 EXCEPT !.op = "Get", !.key = k,
                                                      !.entry = index[k],
                                                      !.callTime = now,
                                                      !.expect = fresh[k]]]
            /\ res' = [res EXCEPT ![p] = Res0]
    /\ UNCHANGED <<mgrVars, cacheVars, now, ghostVars, tampers, lockVars, auxVars>>

GetRes(p, kind, val) ==
    [Res0 EXCEPT !.op = "Get", !.kind = kind, !.val = val, !.key = loc[p].key,
                 !.arg = loc[p].data, !.found = TRUE, !.callTime = loc[p].callTime,
                 !.checkTime = loc[p].checkTime, !.entryExp = loc[p].entry.ExpiresAt,
                 !.expect = loc[p].expect,
                 !.tampered = loc[p].tampered]

\* Get: time.Now().After(entry.ExpiresAt), no lock held.
GetCheck(p) ==
    /\ At(p, "get_check")
    /\ pc' = [pc EXCEPT ![p] = IF After(now, loc[p].entry.ExpiresAt)
                               THEN "get_expired" ELSE "get_read"]
    /\ loc' = [loc EXCEPT ![p].checkTime = now]
    /\ UNCHANGED <<mgrVars, cacheVars, now, res, ghostVars, tampers, lockVars, auxVars>>

\* Get on an expired entry: c.Delete(key), then ErrExpired.
GetExpired(p) ==
    /\ At(p, "get_expired")
    /\ idxW = ""
    /\ DeleteBody(loc[p].key)
    /\ fresh' = Forget({loc[p].key})
    /\ Return(p, GetRes(p, "Expired", <<>>), {loc[p].key})
    /\ UNCHANGED <<mgrVars, idxW, now, issued, tampered, lastSweep, tampers, lockVars, auxVars>>

\* Get: os.ReadFile(entry.Path), no lock held.
GetRead(p) ==
    /\ At(p, "get_read")
    /\ LET k == loc[p].key
       IN  IF ~files[k].exists
           THEN /\ pc' = [pc EXCEPT ![p] = "get_heal"]
                /\ UNCHANGED <<loc, res>>
           ELSE IF loc[p].entry.Encrypted
           THEN /\ pc' = [pc EXCEPT ![p] = "get_dec"]
                /\ loc' = [loc EXCEPT ![p].data = files[k].data,
                                      ![p].tampered = tampered[k]]
                /\ UNCHANGED res
           ELSE Return(p, GetRes(p, "Ok", files[k].data), {})
    /\ UNCHANGED <<mgrVars, cacheVars, now, ghostVars, tampers, lockVars, auxVars>>

\* (mutant) Get returns the read error and leaves the entry in the index.
GetHealKeepsEntry(p) ==
    /\ At(p, "get_heal")
    /\ idxW = ""
    /\ Return(p, GetRes(p, "ReadError", <<>>), {})
    /\ UNCHANGED <<mgrVars, cacheVars, now, ghostVars, tampers, lockVars, auxVars>>

\* Get when the blob could not be read: c.Delete(key), then the read error.
GetHeal(p) ==
    /\ At(p, "get_heal")
    /\ idxW = ""
    /\ DeleteBody(loc[p].key)
    /\ fresh' = Forget({loc[p].key})
    /\ Return(p, GetRes(p, "ReadError", <<>>), {loc[p].key})
    /\ UNCHANGED <<mgrVars, idxW, now, issued, tampered, lastSweep,
                   tampers, lockVars, auxVars>>

\* Get on an encrypted entry: c.crypto.Decrypt(data).
GetDecrypt(p) ==
    /\ At(p, "get_dec")
    /\ (IF DecryptPre(loc[p].data) THEN TRUE ELSE keysW = "")
    /\ LET d == Decrypt(keys, loc[p].data)
       IN  Return(p, [GetRes(p, d.kind, d.pt) EXCEPT
                          !.opened = d.opened,
                          !.unknown = /\ ~DecryptPre(loc[p].data)
                                      /\ PrefixID(loc[p].data) \notin DOMAIN keys],
                  {})
    /\ UNCHANGED <<mgrVars, cacheVars, now, ghostVars, tampers, lockVars, auxVars>>

\* cleanup, the sweep of the background goroutine, with indexMutex held
\* throughout.  The size pass walks the survivors in the order sort.Slice
\* left them in.
cleanup ==
    /\ ~crashed
    /\ idxW = ""
    /\ LET expired == ExpiredKeys(index, now)
           alive == Present(index) \ expired
           totalSize == SumSizes(index, alive)
       IN  \E items \in SortedOrders(index, alive) :
             LET evicted == IF totalSize > maxSize
                            THEN EvictOldest(index, items, 1, totalSize)
                            ELSE {}
                 deleted == expired \cup evicted
             IN  /\ files' = RemoveFiles(files, deleted)
                 /\ index' = RemoveKeys(index, deleted)
                 /\ currentSize' = totalSize - SumSizes(index, evicted)
                 /\ diskIndex' = saveIndex(index')
                 /\ fresh' = Forget(deleted)
                 /\ loc' = Locs("", Loc0, deleted)
                 /\ lastSweep' =
                        [evicted |-> IF evicted = {} THEN lastSweep.evicted
                                     ELSE {index[k].CreatedAt : k \in evicted},
                         kept |-> IF evicted = {} THEN lastSweep.kept
                                  ELSE {index[k].CreatedAt : k \in alive \ evicted},
                         at |-> IF expired = {} THEN lastSweep.at ELSE now,
                         gone |-> IF expired = {} THEN lastSweep.gone
                                  ELSE {index[k].ExpiresAt : k \in expired},
                         stay |-> IF expired = {} THEN lastSweep.stay
                                  ELSE {index[k].ExpiresAt : k \in alive}]
    /\ UNCHANGED <<mgrVars, idxW, now, pc, res, issued, tampered, tampers, lockVars, auxVars>>

\* The environment removes the blob of k from the cache directory.
LoseBlob(k) ==
    /\ ~crashed
    /\ files[k].exists
    /\ files' = RemoveFiles(files, {k})
    /\ fresh' = Forget({k})
    /\ loc' = Locs("", Loc0, {k})
    /\ UNCHANGED <<mgrVars, index, diskIndex, currentSize, idxW, now, pc, res,
                   issued, tampered, lastSweep, tampers, lockVars, auxVars>>

\* The clock.
Tick ==
    /\ ~crashed
    /\ now < MaxTime
    /\ now' = now + 1
    /\ UNCHANGED <<mgrVars, cacheVars, procVars, ghostVars, tampers, lockVars, auxVars>>

\* The bytes the environment may write over one byte of a blob: a zero, a
\* length one off the ID's, and the characters key IDs end in.
ReplacementBytes ==
    {Raw(0), Raw(idChars - 1), Raw(idChars + 1)}
    \cup {EncodeToString(s)[idChars] : s \in 1..MaxKeys}

\* The environment changes byte i of the blob of k on disk.
Tamper(k, i, b) ==
    /\ ~crashed
    /\ tampers < MaxTamper
    /\ files[k].exists
    /\ ~tampered[k]
    /\ i \in 1..Len(files[k].data)
    /\ files[k].data[i] # b
    /\ i > 1 + idChars => b = Raw(0)
    /\ files' = [files EXCEPT ![k].data[i] = b]
    /\ tampers' = tampers + 1
    /\ tampered' = [tampered EXCEPT ![k] = TRUE]
    /\ fresh' = Forget({k})
    /\ loc' = Locs("", Loc0, {k})
    /\ UNCHANGED <<mgrVars, index, diskIndex, currentSize, idxW, now, pc, res,
                   issued, lastSweep, lockVars, auxVars>>

\* The caller has looked at the result and is ready for its next call.
Done(p) ==
    /\ At(p, "ret")
    /\ pc' = [pc EXCEPT ![p] = "idle"]
    /\ res' = [res EXCEPT ![p] = Res0]
    /\ UNCHANGED <<mgrVars, cacheVars, now, loc, ghostVars, tampers, lockVars, auxVars>>

\* --------------------------------------------------------- specifications
\* What a goroutine serving the mail layer calls on the cache.
CacheCall(p) ==
    \/ \E k \in CacheKeys, data \in Payloads, encrypted \in BOOLEAN :
          SetCall(p, k, data, encrypted)
    \/ \E k \in CacheKeys : GetCall(p, k)
    \/ \E k \in CacheKeys : DeleteCall(p, k)
    \/ ClearCall(p)

\* What a goroutine serving a handler calls on the key manager.
ManagerCall(p) ==
    \/ \E data \in Secrets : EncryptCall(p, data)
    \/ \E data \in DecryptInputs : DecryptCall(p, data)
    \/ GenerateKeyCall(p)
    \/ \E keyID \in DOMAIN keys \cup {EncodeToString(MaxKeys + 1)} :
          RotateKeyCall(p, keyID)

\* The steps of a cache call that is under way.
CacheStep(p) ==
    \/ SetBody(p)
    \/ GetCheck(p)
    \/ GetExpired(p)
    \/ GetRead(p)
    \/ GetHeal(p)
    \/ GetDecrypt(p)

\* The steps of Encrypt, with the GenerateKey it may call.
EncryptStep(p) ==
    \/ EncryptFind(p)
    \/ EncryptSeal(p)
    \/ GenerateKey(p)

\* Spec: one goroutine of the mail layer on the cache, the sweep of the
\* background goroutine, and the clock.
Next ==
    \/ CacheCall("p1")
    \/ CacheStep("p1")
    \/ EncryptStep("p1")
    \/ Done("p1")
    \/ cleanup
    \/ Tick

Spec == Init /\ [][Next]_vars

\* SpecKeys: two handler goroutines on the key manager, and a *.enc file
\* that may appear in the key directory.
NextKeys ==
    \/ \E p \in Procs :
          \/ ManagerCall(p)
          \/ EncryptStep(p)
          \/ RotateKeyReencrypt(p)
          \/ Done(p)
    \/ ConcurrentMapAccess
    \/ \E content \in EncFileContents : PutEncFile(content)

SpecKeys == Init /\ [][NextKeys]_vars

\* SpecRotate: one goroutine storing and reading an encrypted entry while a
\* handler goroutine encrypts and rotates keys.
NextRotate ==
    \/ \E data \in Payloads : SetCall("p1", "a", data, TRUE)
    \/ GetCall("p1", "a")
    \/ SetBody("p1")
    \/ GetCheck("p1")
    \/ GetExpired("p1")
    \/ GetRead("p1")
    \/ GetDecrypt("p1")
    \/ \E data \in Secrets : EncryptCall("p2", data)
    \/ \E keyID \in DOMAIN keys \cup {EncodeToString(MaxKeys + 1)} :
          RotateKeyCall("p2", keyID)
    \/ RotateKeyReencrypt("p2")
    \/ \E p \in Procs : EncryptStep(p) \/ Done(p)
    \/ ConcurrentMapAccess
    \/ Tick

SpecRotate == Init /\ [][NextRotate]_vars

\* SpecTamper: one goroutine storing and reading an encrypted entry whose
\* blob the environment changes on disk.
NextTamper ==
    \/ \E data \in Payloads : SetCall("p1", "a", data, TRUE)
    \/ GetCall("p1", "a")
    \/ GenerateKeyCall("p1")
    \/ SetBody("p1")
    \/ GetCheck("p1")
    \/ GetRead("p1")
    \/ GetDecrypt("p1")
    \/ EncryptStep("p1")
    \/ Done("p1")
    \/ \E i \in 1..(1 + idChars + nonceSize + 30 + gcmTagSize),
          b \in ReplacementBytes : Tamper("a", i, b)

SpecTamper == Init /\ [][NextTamper]_vars

\* ---------------------------------------------------------------------------
\* Properties of the cache (checked under Spec).

\* A call has returned to its caller in this state.
Returned(p, op) == pc[p] = "ret" /\ res[p].op = op

\* C1: a Get(k) that follows a successful Set(k, P, E), with no other
\* operation on k in between (a later Set, a Delete, a Clear or a removal by
\* the sweep), and that reads the clock no later than the entry's ExpiresAt,
\* returns exactly P, for E true and for E false.
C1_RoundTrip ==
    \A p \in Procs :
        (/\ Returned(p, "Get")
         /\ res[p].expect.has
         /\ res[p].checkTime <= res[p].expect.exp)
        => (res[p].kind = "Ok" /\ res[p].val = res[p].expect.P)

\* C1's case: a Get has handed back the payload of an encrypted entry.
C1_Witness ==
    \E p \in Procs :
        /\ Returned(p, "Get")
        /\ res[p].expect.has
        /\ res[p].kind = "Ok"
        /\ res[p].val = res[p].expect.P
        /\ index[res[p].key].present
        /\ index[res[p].key].Encrypted

\* C2: Set is refused with ErrSizeExceeded exactly when currentSize plus the
\* size of the blob to store exceeds maxSize, and from the call to a return
\* that is not a success nothing changes the index, currentSize, the blobs
\* on disk or index.json.
C2_AdmissionControl ==
    [][\A p \in Procs :
          /\ (loc[p].op = "Set" /\ ~(pc'[p] = "ret" /\ res'[p].kind = "Ok"))
             => UNCHANGED <<index, currentSize, files, diskIndex>>
          /\ (pc[p] = "set_body" /\ pc'[p] = "ret")
             => (res'[p].kind = "SizeExceeded"
                 <=> currentSize + Len(loc[p].data) > maxSize)]_vars

\* C2's case: Set("b", ..) has been refused while "a" is in the index.
C2_Witness ==
    \E p \in Procs :
        /\ Returned(p, "Set")
        /\ res[p].kind = "SizeExceeded"
        /\ res[p].key = "b"
        /\ index["a"].present
        /\ ~index["b"].present

C5_EvictionOrder ==
    \A e \in lastSweep.evicted, s \in lastSweep.kept : e <= s

\* C5's case: a sweep has evicted one entry for size and kept a newer one.
C5_Witness ==
    /\ lastSweep.evicted # {}
    /\ lastSweep.kept # {}
    /\ \E e \in lastSweep.evicted, s \in lastSweep.kept : e < s

\* ---------------------------------------------------------------------------
\* Properties of blobs changed on disk (checked under SpecTamper).

\* C4: once one byte of the blob of an encrypted entry has been changed on
\* disk (the length byte and the key ID included), the next Get of the key
\* fails with an error of Decrypt, which Get reports as "failed to decrypt
\* data", and hands back no payload.
C4_TamperDetected ==
    \A p \in Procs :
        (Returned(p, "Get") /\ res[p].tampered)
        => (/\ res[p].kind \in {"DecryptFailed", "KeyNotFound", "InvalidNonce"}
            /\ res[p].val = <<>>)

\* ---------------------------------------------------------------------------
\* Properties of key rotation (checked under SpecRotate).

\* RotateKey has returned nil to p.
Rotated(p) == Returned(p, "RotateKey") /\ res[p].kind = "Ok"

\* The encrypted entries of the index whose blob is on disk.
EncryptedEntries ==
    {k \in CacheKeys : index[k].present /\ index[k].Encrypted /\ files[k].exists}

\* C6: after RotateKey(oldID) has returned nil, every blob that Decrypt
\* turned into a plaintext P when the rotation was called is still turned
\* into exactly P by Decrypt, the blobs of unchanged cache entries included.
C6_RotationPreservesPlaintext ==
    \A p \in Procs :
        Rotated(p) =>
            \A x \in res[p].snap :
                LET d == Decrypt(keys, x.ct)
                IN  d.kind = "Ok" /\ d.pt = x.pt

\* C6's case: a rotation has succeeded while the cache held an entry sealed
\* under the rotated key, and the entry's blob is unchanged since.
C6_Witness ==
    \E p \in Procs :
        /\ Rotated(p)
        /\ \E x \in res[p].snap, k \in EncryptedEntries :
              /\ PrefixID(x.ct) = res[p].rid
              /\ files[k].data = x.ct
              /\ x.pt \in Payloads

\* C7: after RotateKey(oldID) has returned nil no persisted ciphertext
\* carries oldID as its key ID prefix: every blob that carried it has been
\* re-encrypted and carries the ID of the new key.
C7_RotationRetags ==
    \A p \in Procs :
        Rotated(p) =>
            \A k \in EncryptedEntries : PrefixID(files[k].data) # res[p].rid

\* ---------------------------------------------------------------------------
\* Properties of the key manager (checked under SpecKeys).

\* No call on the manager is in progress.
Quiescent == \A p \in Procs : pc[p] \in {"idle", "ret"}

\* C8: whenever the manager has a key and no call is in progress, exactly
\* one registered key has Active = true.
C8_SingleActiveKey ==
    (Quiescent /\ DOMAIN keys # {}) => Cardinality(ActiveIDs(keys)) = 1

\* The key material a buffer of Encrypt was sealed under.
SealedUnder(ct) == ct[1 + ByteVal(ct[1]) + nonceSize + 1].v[1]

\* C9: every buffer Encrypt returned is sealed under the raw key of the
\* registered key whose ID is in its prefix, and none under the master key.
C9_PayloadUnderDEK ==
    \A c \in issued :
        /\ SealedUnder(c.ct) # MasterMaterial
        /\ PrefixID(c.ct) \in DOMAIN keys
           => SealedUnder(c.ct) = keys[PrefixID(c.ct)].Key

\* C10: Decrypt of a blob whose key ID prefix names no registered key
\* returns ErrKeyNotFound and no plaintext, and gcm.Open is not called.
C10_UnknownKeyFailsClosed ==
    \A p \in Procs :
        (Returned(p, "Decrypt") /\ res[p].unknown)
        => (/\ res[p].kind = "KeyNotFound"
            /\ res[p].val = <<>>
            /\ ~res[p].opened)

\* C10's case: Decrypt has refused a buffer of Encrypt whose prefix was
\* replaced by an ID that is not registered, the sealed box left intact.
C10_Witness ==
    \E p \in Procs, c \in issued :
        /\ Returned(p, "Decrypt")
        /\ res[p].unknown
        /\ res[p].kind = "KeyNotFound"
        /\ res[p].arg = Retag(c.ct, EncodeToString(MaxKeys + 1))
        /\ Decrypt(keys, c.ct).kind = "Ok"

\* The buffer Decrypt was given is malformed behind a usable header: its
\* key ID was registered at the call and fewer than nonceSize bytes follow.
ShortNonce(p) ==
    /\ ~DecryptPre(res[p].arg)
    /\ ~res[p].unknown
    /\ Len(res[p].arg) - 1 - ByteVal(res[p].arg[1]) < nonceSize

WireFormat(buf, id, pt) ==
    LET h == 1 + Len(id)
    IN  /\ Len(buf) = h + nonceSize + Len(pt) + gcmTagSize
        /\ buf[1] = Raw(Len(id))
        /\ SubSeq(buf, 2, h) = id
        /\ \A i \in 1..nonceSize : buf[h + i].k = "nonce"
        /\ \A i \in 1..Len(pt) : buf[h + nonceSize + i].k = "ct"
        /\ \A i \in 1..gcmTagSize : buf[h + nonceSize + Len(pt) + i].k = "tag"

\* The step of p with which Encrypt hands its buffer back.
EncryptReturns(p) == pc[p] = "enc_seal" /\ pc'[p] \in {"ret", "set_body"}

\* The buffer Encrypt hands back with that step.
EncryptResult(p) == IF pc'[p] = "ret" THEN res'[p].val ELSE loc'[p].data

\* C12: the buffer a successful Encrypt(p) returns has the wire format, with
\* the ID of a key that is registered and Active when the call returns.
C12_WireFormatActiveAtReturn ==
    [][\A p \in Procs :
          EncryptReturns(p) =>
             /\ WireFormat(EncryptResult(p), loc[p].ak, loc[p].data)
             /\ loc[p].ak \in DOMAIN keys'
             /\ keys'[loc[p].ak].Active]_vars

\* C12 as amended: the buffer a successful Encrypt(p) returns has the wire
\* format, with the ID of a key that was Active when Encrypt selected it and
\* is registered when the call returns.
C12_WireFormat ==
    [][\A p \in Procs :
          /\ EncryptReturns(p) =>
                /\ WireFormat(EncryptResult(p), loc[p].ak, loc[p].data)
                /\ loc[p].ak \in DOMAIN keys'
          /\ (pc[p] # "enc_seal" /\ pc'[p] = "enc_seal") =>
                /\ loc'[p].ak \in DOMAIN keys'
                /\ keys'[loc'[p].ak].Active]_vars

\* C12's case: Encrypt has returned a buffer in the wire format whose key
\* was retired by a rotation while the buffer was sealed.
C12_Witness ==
    \E p \in Procs, c \in issued :
        /\ Returned(p, "Encrypt")
        /\ res[p].kind = "Ok"
        /\ res[p].val = c.ct
        /\ WireFormat(c.ct, PrefixID(c.ct), c.pt)
        /\ PrefixID(c.ct) \in DOMAIN keys
        /\ ~keys[PrefixID(c.ct)].Active

\* The step of p with which RotateKey returns an error after it found the
\* old key and generated the new one.
RotateKeyFails(p) ==
    /\ pc[p] = "rot_reenc"
    /\ pc'[p] = "ret"
    /\ res'[p].kind # "Ok"

\* C13: when RotateKey(oldID) returns an error after the old key was found,
\* the old key is registered with the Active status it had (Active, for the
\* key in use), and the new key is neither in m.keys nor left as a key
\* record in the key directory.
C13_RotateRolledBack ==
    [][\A p \in Procs :
          RotateKeyFails(p) =>
             /\ loc[p].rid \in DOMAIN keys'
             /\ keys'[loc[p].rid].Active = keys[loc[p].rid].Active
             /\ loc[p].newID \notin DOMAIN keys'
             /\ loc[p].newID \notin DOMAIN keyFiles']_vars

\* ---------------------------------------------------------------------------
\* SpecLife: the life of the key manager.  The first NewManager on an empty
\* key directory with some passphrase, a handler goroutine that generates keys
\* and encrypts, a goroutine that closes the manager, and the process started
\* again on the same directory.
InitLife ==
    /\ \E password \in Passwords : InitManager(password)
    /\ index = loadIndex(NoIndexFile, [k \in CacheKeys |-> NoFile])
    /\ files = [k \in CacheKeys |-> NoFile]
    /\ diskIndex = NoIndexFile
    /\ currentSize = 0
    /\ InitRest

NextLife ==
    \/ GenerateKeyCall("p1")
    \/ \E data \in Secrets : EncryptCall("p1", data)
    \/ EncryptStep("p1")
    \/ CloseCall("p2")
    \/ CloseKeys("p2")
    \/ CloseReturn("p2")
    \/ \E p \in Procs : Done(p)
    \/ ConcurrentMapAccess
    \/ \E password \in Passwords : Restart(password)

SpecLife == InitLife /\ [][NextLife]_vars

\* C14: when Close returns, every byte of m.masterKey and of the raw key of
\* every registered key is zero.
C14_CloseZeroes ==
    [][\A p \in Procs :
          (pc[p] = "close_ret" /\ pc'[p] = "ret") =>
             /\ masterKey' = 0
             /\ \A id \in DOMAIN keys' : keys'[id].Key = 0]_vars

\* ---------------------------------------------------------------------------
\* SpecFiles: one goroutine of the mail layer storing plain entries, reading,
\* deleting and clearing, while the environment removes blobs from the cache
\* directory.
NextFiles ==
    \/ \E k \in CacheKeys, data \in Payloads : SetCall("p1", k, data, FALSE)
    \/ \E k \in CacheKeys : GetCall("p1", k)
    \/ \E k \in CacheKeys : DeleteCall("p1", k)
    \/ ClearCall("p1")
    \/ SetBody("p1")
    \/ GetCheck("p1")
    \/ GetRead("p1")
    \/ GetHeal("p1")
    \/ Done("p1")
    \/ \E k \in CacheKeys : LoseBlob(k)

SpecFiles == Init /\ [][NextFiles]_vars

\* The step with which Delete(k) returns to p.
DeleteReturns(p, k) ==
    /\ pc[p] = "idle"
    /\ pc'[p] = "ret"
    /\ res'[p].op = "Delete"
    /\ res'[p].key = k

\* C15: Delete(k) on an indexed key returns Ok with the blob file gone
\* (whether or not it was still there), the size counter lower by the
\* entry's size, k out of the index, the other entries as they were and the
\* index saved; Delete(k) on a key that is not indexed returns Ok and changes
\* nothing.
C15_Delete ==
    [][\A p \in Procs, k \in CacheKeys :
          DeleteReturns(p, k) =>
             /\ res'[p].kind = "Ok"
             /\ IF index[k].present
                THEN /\ ~files'[k].exists
                     /\ currentSize' = currentSize - index[k].Size
                     /\ index' = [index EXCEPT ![k] = NoEntry]
                     /\ \A j \in CacheKeys \ {k} : files'[j] = files[j]
                     /\ diskIndex' = saveIndex(index')
                ELSE UNCHANGED <<index, files, diskIndex, currentSize>>]_vars

\* C15's case: Delete has returned Ok for an indexed key whose blob was
\* already missing, the other key still indexed.
C15_Witness ==
    \E p \in Procs :
        /\ Returned(p, "Delete")
        /\ res[p].kind = "Ok"
        /\ res[p].found
        /\ res[p].missing
        /\ ~index[res[p].key].present
        /\ \E j \in CacheKeys : index[j].present

\* The index with no entry.
EmptyIndex == [k \in CacheKeys |-> NoEntry]

\* C16: Clear returns Ok with the index empty, the size counter 0, no blob in
\* the cache directory and index.json holding the empty index; the index
\* stays empty until a Set stores an entry, and while it is empty every Get
\* returns ErrNotFound.
C16_Clear ==
    [][\A p \in Procs :
          /\ (pc[p] = "idle" /\ pc'[p] = "ret" /\ res'[p].op = "Clear") =>
                /\ res'[p].kind = "Ok"
                /\ index' = EmptyIndex
                /\ currentSize' = 0
                /\ \A k \in CacheKeys : ~files'[k].exists
                /\ diskIndex' = saveIndex(EmptyIndex)
          /\ (index = EmptyIndex /\ index' # EmptyIndex) =>
                \E q \in Procs : pc[q] = "set_body" /\ pc'[q] = "ret"
          /\ (/\ index = EmptyIndex
              /\ pc[p] = "idle"
              /\ (loc'[p].op = "Get" \/ res'[p].op = "Get")) =>
                (pc'[p] = "ret" /\ res'[p].kind = "NotFound")]_vars

\* C16's case: Clear has returned on a cache that held entries.
C16_Witness ==
    \E p \in Procs :
        /\ Returned(p, "Clear")
        /\ res[p].found
        /\ index = EmptyIndex
        /\ currentSize = 0
        /\ diskIndex = saveIndex(EmptyIndex)

\* The cache directory holds no blob and the index no entry.
EmptyCache ==
    \A k \in CacheKeys : ~files[k].exists /\ ~index[k].present

\* C17 as stated: a cache constructed on an empty directory has an index.json
\* holding the empty object, before any Set, Delete, Clear or sweep.
C17_IndexFileWritten ==
    EmptyCache => diskIndex = saveIndex(EmptyIndex)

\* C17, amended: NewFileCache on an empty directory writes nothing (the
\* index is empty, the size counter 0, and there is no index.json), and
\* index.json first appears with the first Set, Delete, Clear or sweep that
\* saves the index.
C17_IndexFileAbsentUntilSaved ==
    /\ (\A k \in CacheKeys : ~files[k].exists) =>
          /\ ~diskIndex.exists
          /\ index = EmptyIndex
          /\ currentSize = 0
    /\ [][(~diskIndex.exists /\ diskIndex'.exists) =>
            /\ diskIndex' = saveIndex(index')
            /\ \/ cleanup
               \/ \E p \in Procs :
                     \/ SetBody(p)
                     \/ ClearCall(p)
                     \/ \E k \in CacheKeys : DeleteCall(p, k)]_vars

\* C17's case: a cache made on an empty directory is serving calls and has
\* no index.json.
C17_Witness ==
    /\ EmptyCache
    /\ ~diskIndex.exists
    /\ \E p \in Procs : Returned(p, "Get") /\ res[p].kind = "NotFound"

\* ------------------------------------------- file cache: the two mutexes
\* The labels at which a goroutine stands in indexMutex.Lock() and in
\* sizeMutex.Lock().
WantsIndexW == {"set_lock", "del_lock", "clr_lock", "swp_lock"}
WantsSize == {"set_size", "del_size", "clr_size", "swp_size"}

\* indexMutex.Lock() goes through when nobody holds the mutex.
CanLock == idxW = "" /\ idxR = {}

\* indexMutex.RLock() goes through when no writer holds the mutex and no
\* writer waits for readers to leave (sync.RWMutex).
CanRLock ==
    /\ idxW = ""
    /\ ~(idxR # {} /\ \E q \in Procs : pc[q] \in WantsIndexW)

\* p enters a method of the cache with the locals l.
Enter(p, label, l) ==
    /\ Idle(p)
    /\ pc' = [pc EXCEPT ![p] = label]
    /\ loc' = [loc EXCEPT ![p] = l]
    /\ res' = [res EXCEPT ![p] = Res0]
    /\ UNCHANGED <<mgrVars, cacheVars, now, ghostVars, tampers, lockVars, auxVars>>

SetEnter(p, k, data) ==
    Enter(p, "set_lock", [Loc0 EXCEPT !.op = "Set", !.key = k, !.P = data,
                                      !.data = data])

\* Set: indexMutex.Lock, the admission test, the blob and the index entry.
SetLock(p) ==
    /\ At(p, "set_lock")
    /\ CanLock
    /\ LET k == loc[p].key
           newSize == Len(loc[p].data)
       IN  IF ~Admitted(currentSize, newSize)
           THEN /\ Return(p, [Res0 EXCEPT !.op = "Set", !.kind = "SizeExceeded",
                                          !.key = k], {})
                /\ UNCHANGED <<index, files, idxW, fresh, tampered>>
           ELSE /\ idxW' = p
                /\ files' = [files EXCEPT ![k] = [exists |-> TRUE,
                                                  data |-> loc[p].data]]
                /\ index' = [index EXCEPT ![k] = NewEntry(newSize, now, FALSE)]
                /\ fresh' = [fresh EXCEPT ![k] = [has |-> TRUE, P |-> loc[p].P,
                                                  exp |-> now + ttl]]
                /\ tampered' = [tampered EXCEPT ![k] = FALSE]
                /\ pc' = [pc EXCEPT ![p] = "set_size"]
                /\ loc' = Locs(p, loc[p], {k})
                /\ UNCHANGED res
    /\ UNCHANGED <<mgrVars, diskIndex, currentSize, now, issued, lastSweep,
                   tampers, lockVars, auxVars>>

\* Set: sizeMutex.Lock and the size counter.
SetSize(p) ==
    /\ At(p, "set_size")
    /\ sizeW = ""
    /\ sizeW' = p
    /\ currentSize' = currentSize + Len(loc[p].data)
    /\ pc' = [pc EXCEPT ![p] = "set_save"]
    /\ UNCHANGED <<mgrVars, index, files, diskIndex, idxW, now, loc, res,
                   ghostVars, tampers, idxR, auxVars>>

\* Set: sizeMutex.Unlock, saveIndex, and the deferred indexMutex.Unlock.
SetSave(p) ==
    /\ At(p, "set_save")
    /\ sizeW' = ""
    /\ diskIndex' = saveIndex(index)
    /\ idxW' = ""
    /\ Return(p, [Res0 EXCEPT !.op = "Set", !.kind = "Ok", !.key = loc[p].key],
              {})
    /\ UNCHANGED <<mgrVars, index, files, currentSize, now, ghostVars, tampers,
                   idxR, auxVars>>

DeleteEnter(p, k) ==
    Enter(p, "del_lock", [Loc0 EXCEPT !.op = "Delete", !.key = k])

\* What the caller of Delete gets: Delete's nil, or, when Get called it,
\* Get's error.
DeleteResult(p) ==
    IF loc[p].op = "Get"
    THEN GetRes(p, loc[p].ret, <<>>)
    ELSE [Res0 EXCEPT !.op = "Delete", !.kind = "Ok", !.key = loc[p].key]

\* Delete: indexMutex.Lock, the lookup, os.Remove.
DeleteLock(p) ==
    /\ At(p, "del_lock")
    /\ CanLock
    /\ LET k == loc[p].key
       IN  IF ~index[k].present
           THEN /\ Return(p, DeleteResult(p), {})
                /\ UNCHANGED <<files, idxW, fresh>>
           ELSE /\ idxW' = p
                /\ files' = RemoveFiles(files, {k})
                /\ fresh' = Forget({k})
                /\ pc' = [pc EXCEPT ![p] = "del_size"]
                /\ loc' = Locs(p, loc[p], {k})
                /\ UNCHANGED res
    /\ UNCHANGED <<mgrVars, index, diskIndex, currentSize, now, issued,
                   tampered, lastSweep, tampers, lockVars, auxVars>>

\* Delete: sizeMutex.Lock and the size counter.
DeleteSize(p) ==
    /\ At(p, "del_size")
    /\ sizeW = ""
    /\ sizeW' = p
    /\ currentSize' = currentSize - index[loc[p].key].Size
    /\ pc' = [pc EXCEPT ![p] = "del_save"]
    /\ UNCHANGED <<mgrVars, index, files, diskIndex, idxW, now, loc, res,
                   ghostVars, tampers, idxR, auxVars>>

\* Delete: sizeMutex.Unlock, delete(c.index, key), saveIndex, and the
\* deferred indexMutex.Unlock.
DeleteSave(p) ==
    /\ At(p, "del_save")
    /\ sizeW' = ""
    /\ index' = RemoveKeys(index, {loc[p].key})
    /\ diskIndex' = saveIndex(index')
    /\ idxW' = ""
    /\ Return(p, DeleteResult(p), {})
    /\ UNCHANGED <<mgrVars, files, currentSize, now, ghostVars, tampers, idxR, auxVars>>

ClearEnter(p) ==
    Enter(p, "clr_lock", [Loc0 EXCEPT !.op = "Clear"])

\* Clear: indexMutex.Lock, the directory removed and made again, a new index.
ClearLock(p) ==
    /\ At(p, "clr_lock")
    /\ CanLock
    /\ idxW' = p
    /\ files' = RemoveFiles(files, CacheKeys)
    /\ index' = EmptyIndex
    /\ fresh' = Forget(CacheKeys)
    /\ pc' = [pc EXCEPT ![p] = "clr_size"]
    /\ loc' = Locs(p, loc[p], CacheKeys)
    /\ UNCHANGED <<mgrVars, diskIndex, currentSize, now, res, issued, tampered,
                   lastSweep, tampers, lockVars, auxVars>>

\* Clear: sizeMutex.Lock and the size counter.
ClearSize(p) ==
    /\ At(p, "clr_size")
    /\ sizeW = ""
    /\ sizeW' = p
    /\ currentSize' = 0
    /\ pc' = [pc EXCEPT ![p] = "clr_save"]
    /\ UNCHANGED <<mgrVars, index, files, diskIndex, idxW, now, loc, res,
                   ghostVars, tampers, idxR, auxVars>>

\* Clear: sizeMutex.Unlock, saveIndex, and the deferred indexMutex.Unlock.
ClearSave(p) ==
    /\ At(p, "clr_save")
    /\ sizeW' = ""
    /\ diskIndex' = saveIndex(index)
    /\ idxW' = ""
    /\ Return(p, [Res0 EXCEPT !.op = "Clear", !.kind = "Ok"], {})
    /\ UNCHANGED <<mgrVars, index, files, currentSize, now, ghostVars, tampers,
                   idxR, auxVars>>

\* The ticker fires in cleanupRoutine.
cleanupEnter(p) ==
    Enter(p, "swp_lock", [Loc0 EXCEPT !.op = "cleanup"])

\* (mutant) the sweep runs without taking indexMutex.
cleanupWithoutLock(p) ==
    /\ At(p, "swp_lock")
    /\ idxW' = idxW
    /\ LET expired == ExpiredKeys(index, now)
           alive == Present(index) \ expired
           totalSize == SumSizes(index, alive)
       IN  \E items \in SortedOrders(index, alive) :
             LET evicted == IF totalSize > maxSize
                            THEN EvictOldest(index, items, 1, totalSize)
                            ELSE {}
                 deleted == expired \cup evicted
             IN  /\ files' = RemoveFiles(files, deleted)
                 /\ index' = RemoveKeys(index, deleted)
                 /\ fresh' = Forget(deleted)
                 /\ loc' = Locs(p, [loc[p] EXCEPT
                                       !.size = totalSize - SumSizes(index, evicted)],
                                deleted)
    /\ pc' = [pc EXCEPT ![p] = "swp_size"]
    /\ UNCHANGED <<mgrVars, diskIndex, currentSize, now, res, issued, tampered,
                   lastSweep, tampers, lockVars, auxVars>>

\* cleanup: indexMutex.Lock, the expiry pass, the size pass, the index
\* entries removed.
cleanupLock(p) ==
    /\ At(p, "swp_lock")
    /\ CanLock
    /\ idxW' = p
    /\ LET expired == ExpiredKeys(index, now)
           alive == Present(index) \ expired
           totalSize == SumSizes(index, alive)
       IN  \E items \in SortedOrders(index, alive) :
             LET evicted == IF totalSize > maxSize
                            THEN EvictOldest(index, items, 1, totalSize)
                            ELSE {}
                 deleted == expired \cup evicted
             IN  /\ files' = RemoveFiles(files, deleted)
                 /\ index' = RemoveKeys(index, deleted)
                 /\ fresh' = Forget(deleted)
                 /\ loc' = Locs(p, [loc[p] EXCEPT
                                       !.size = totalSize - SumSizes(index, evicted)],
                                deleted)
    /\ pc' = [pc EXCEPT ![p] = "swp_size"]
    /\ UNCHANGED <<mgrVars, diskIndex, currentSize, now, res, issued, tampered,
                   lastSweep, tampers, lockVars, auxVars>>

\* cleanup: sizeMutex.Lock and c.currentSize = totalSize.
cleanupSize(p) ==
    /\ At(p, "swp_size")
    /\ sizeW = ""
    /\ sizeW' = p
    /\ currentSize' = loc[p].size
    /\ pc' = [pc EXCEPT ![p] = "swp_save"]
    /\ UNCHANGED <<mgrVars, index, files, diskIndex, idxW, now, loc, res,
                   ghostVars, tampers, idxR, auxVars>>

\* cleanup: sizeMutex.Unlock, saveIndex, and the deferred indexMutex.Unlock.
cleanupSave(p) ==
    /\ At(p, "swp_save")
    /\ sizeW' = ""
    /\ diskIndex' = saveIndex(index)
    /\ idxW' = ""
    /\ Return(p, [Res0 EXCEPT !.op = "cleanup", !.kind = "Ok"], {})
    /\ UNCHANGED <<mgrVars, index, files, currentSize, now, ghostVars, tampers,
                   idxR, auxVars>>

GetEnter(p, k) ==
    Enter(p, "get_rlock", [Loc0 EXCEPT !.op = "Get", !.key = k,
                                       !.callTime = now])

\* Get: indexMutex.RLock.
GetRLock(p) ==
    /\ At(p, "get_rlock")
    /\ CanRLock
    /\ idxR' = idxR \cup {p}
    /\ pc' = [pc EXCEPT ![p] = "get_look"]
    /\ UNCHANGED <<mgrVars, cacheVars, now, loc, res, ghostVars, tampers, sizeW, auxVars>>

\* (mutant) Get keeps its read lock after the lookup.
GetKeepsRLock(p) ==
    /\ At(p, "get_look")
    /\ idxR' = idxR
    /\ LET k == loc[p].key
       IN  IF ~index[k].present
           THEN Return(p, [Res0 EXCEPT !.op = "Get", !.kind = "NotFound",
                                       !.key = k, !.callTime = loc[p].callTime,
                                       !.expect = fresh[k]], {})
           ELSE /\ pc' = [pc EXCEPT ![p] = "get_check"]
                /\ loc' = [loc EXCEPT ![p].entry = index[k],
                                      ![p].expect = fresh[k]]
                /\ UNCHANGED res
    /\ UNCHANGED <<mgrVars, cacheVars, now, ghostVars, tampers, sizeW, auxVars>>

\* Get: the lookup and indexMutex.RUnlock.
GetRUnlock(p) ==
    /\ At(p, "get_look")
    /\ idxR' = idxR \ {p}
    /\ LET k == loc[p].key
       IN  IF ~index[k].present
           THEN Return(p, [Res0 EXCEPT !.op = "Get", !.kind = "NotFound",
                                       !.key = k, !.callTime = loc[p].callTime,
                                       !.expect = fresh[k]], {})
           ELSE /\ pc' = [pc EXCEPT ![p] = "get_check"]
                /\ loc' = [loc EXCEPT ![p].entry = index[k],
                                      ![p].expect = fresh[k]]
                /\ UNCHANGED res
    /\ UNCHANGED <<mgrVars, cacheVars, now, ghostVars, tampers, sizeW, auxVars>>

\* Get on an expired entry, or on one whose blob could not be read: it calls
\* c.Delete(key) and will return the error once Delete is back.
GetDelete(p) ==
    /\ ~crashed
    /\ pc[p] \in {"get_expired", "get_heal"}
    /\ pc' = [pc EXCEPT ![p] = "del_lock"]
    /\ loc' = [loc EXCEPT ![p].ret = IF pc[p] = "get_expired" THEN "Expired"
                                     ELSE "ReadError"]
    /\ UNCHANGED <<mgrVars, cacheVars, now, res, ghostVars, tampers, lockVars, auxVars>>

\* A step of a cache method under way.
LockStep(p) ==
    \/ SetLock(p)
    \/ SetSize(p)
    \/ SetSave(p)
    \/ DeleteLock(p)
    \/ DeleteSize(p)
    \/ DeleteSave(p)
    \/ ClearLock(p)
    \/ ClearSize(p)
    \/ ClearSave(p)
    \/ cleanupLock(p)
    \/ cleanupSize(p)
    \/ cleanupSave(p)
    \/ GetRLock(p)
    \/ GetRUnlock(p)
    \/ GetCheck(p)
    \/ GetRead(p)
    \/ GetDelete(p)

\* SpecLocks: handler goroutines and the sweeper on one cache of plain
\* entries, every acquisition and release of the two mutexes a step.  The
\* clock stands still; entries leave by eviction, Delete, Clear and blobs
\* lost from the directory.
NextLocks ==
    \/ \E p \in Procs :
          \/ \E k \in CacheKeys : SetEnter(p, k, [i \in 1..30 |-> Raw(1)])
          \/ \E k \in CacheKeys : GetEnter(p, k)
          \/ \E k \in CacheKeys : DeleteEnter(p, k)
          \/ ClearEnter(p)
          \/ cleanupEnter(p)
          \/ LockStep(p)
          \/ Done(p)
    \/ \E k \in CacheKeys : LoseBlob(k)

SpecLocks == Init /\ [][NextLocks]_vars

\* What p holds.
HoldsIndex(p) == idxW = p \/ p \in idxR
HoldsSize(p) == sizeW = p

\* The goroutines inside a cache method.
Busy == {p \in Procs : pc[p] \notin {"idle", "ret"}}

\* C18: a goroutine waiting for the size lock holds the index lock as its
\* writer or holds no lock; a goroutine waiting for the index lock holds
\* neither the size lock nor the index lock; and whenever some goroutine is
\* inside Get, Set, Delete, Clear or the sweep, one of them can take a step.
C18_LockOrder ==
    /\ \A p \in Procs :
          /\ pc[p] \in WantsSize =>
                \/ idxW = p
                \/ ~HoldsIndex(p) /\ ~HoldsSize(p)
          /\ pc[p] \in WantsIndexW \cup {"get_rlock"} =>
                ~HoldsSize(p) /\ ~HoldsIndex(p)
    /\ Busy # {} => \E p \in Busy : ENABLED LockStep(p)

\* C18's case: one goroutine waits for the index lock while another holds
\* both locks.
C18_Witness ==
    \E p, q \in Procs :
        /\ pc[p] \in WantsIndexW \cup {"get_rlock"}
        /\ idxW = q
        /\ sizeW = q

\* C19: NewManager with the empty passphrase returns a key-derivation error
\* and no Manager, and a first run with it writes no master.key.
C19_EmptyPassphraseRejected ==
    boot.password = "" =>
        /\ boot.outcome = "error"
        /\ boot.runs = 1 => ~masterFile.exists

\* The passphrase of this run is the one master.key was derived from.
SamePassphrase ==
    masterFile.exists /\ IDKey(boot.password, masterFile.salt) = masterFile.key

\* C20: NewManager on a key directory holding master.key and wrapped DEK
\* records of an earlier run with the same passphrase completes with the
\* master cipher built, registers every one of those DEKs, and decrypts
\* what Encrypt returned before the restart to the same plaintext.
C20_RestartLoadsKeys ==
    (boot.runs > 1 /\ SamePassphrase /\ boot.found # {}) =>
        /\ boot.outcome = "ready"
        /\ ~crashed
        /\ aead.built
        /\ boot.found \subseteq DOMAIN keys
        /\ \A c \in issued :
              /\ Decrypt(keys, c.ct).kind = "Ok"
              /\ Decrypt(keys, c.ct).pt = c.pt

\* ---------------------------------------------------------------------------
\* C21: a RotateKey call under way is never stuck asking for the read lock
\* of keysMutex while it holds the write lock itself; it returns.
C21_RotateKeyTerminates ==
    \A p \in Procs :
        loc[p].op = "RotateKey" => ~(pc[p] = "rot_blocked" /\ keysW = p)

\* The step with which RotateKey(oldID) returns nil to p.
RotateKeySucceeds(p) ==
    /\ pc[p] = "rot_reenc"
    /\ pc'[p] = "ret"
    /\ res'[p].kind = "Ok"

GenFaults == {"none", "rand", "verify", "write"}

\* The error GenerateKey returns for a fault.
GenError(fault) ==
    CASE fault = "rand" -> "KeyGeneration"
      [] fault = "verify" -> "VerifyFailed"
      [] OTHER -> "SaveFailed"

\* GenerateKey has failed: its caller gets the error (Encrypt and RotateKey
\* hand it on, RotateKey releasing keysMutex by its deferred Unlock).
GenerateKeyError(p, kind) ==
    /\ keysW' = IF loc[p].gret = "rot" THEN "" ELSE keysW
    /\ Return(p, [Res0 EXCEPT !.op = loc[p].op, !.kind = kind,
                              !.rid = loc[p].rid], {})

\* (mutant) saveKey puts the key into m.keys before it writes the key file.
GenerateKeySaveRegistersFirst(p, fault) ==
    /\ At(p, "gen")
    /\ salts < MaxKeys
    /\ LET s == salts + 1
           id == EncodeToString(s)
       IN  IF fault = "rand"
           THEN /\ GenerateKeyError(p, GenError(fault))
                /\ UNCHANGED <<salts, keyFiles, keys>>
           ELSE IF fault = "verify" \/ ~verifyKey(NewKey(s).Key)
           THEN /\ salts' = s
                /\ GenerateKeyError(p, GenError("verify"))
                /\ UNCHANGED <<keyFiles, keys>>
           ELSE IF fault = "write"
           THEN /\ salts' = s
                /\ keys' = RegisterKey(keys, id, NewKey(s))
                /\ GenerateKeyError(p, GenError(fault))
                /\ UNCHANGED keyFiles
           ELSE /\ salts' = s
                /\ keyFiles' = (id :> SavedRecord(NewKey(s))) @@ keyFiles
                /\ pc' = [pc EXCEPT ![p] = "gen_reg"]
                /\ loc' = [loc EXCEPT ![p].newID = id, ![p].size = s]
                /\ UNCHANGED <<keys, keysW, res>>
    /\ UNCHANGED <<encFiles, nonces, crashed, lifeVars, cacheVars, now,
                   ghostVars, tampers, lockVars, auxVars>>

\* GenerateKey up to saveKey's os.WriteFile: the random draws, the self
\* test, the key record wrapped and written.
GenerateKeySave(p, fault) ==
    /\ At(p, "gen")
    /\ salts < MaxKeys
    /\ LET s == salts + 1
           id == EncodeToString(s)
       IN  IF fault = "rand"
           THEN /\ GenerateKeyError(p, GenError(fault))
                /\ UNCHANGED <<salts, keyFiles, keys>>
           ELSE IF fault = "verify" \/ ~verifyKey(NewKey(s).Key)
           THEN /\ salts' = s
                /\ GenerateKeyError(p, GenError("verify"))
                /\ UNCHANGED <<keyFiles, keys>>
           ELSE IF fault = "write"
           THEN /\ salts' = s
                /\ GenerateKeyError(p, GenError(fault))
                /\ UNCHANGED <<keyFiles, keys>>
           ELSE /\ salts' = s
                /\ keyFiles' = (id :> SavedRecord(NewKey(s))) @@ keyFiles
                /\ pc' = [pc EXCEPT ![p] = "gen_reg"]
                /\ loc' = [loc EXCEPT ![p].newID = id, ![p].size = s]
                /\ UNCHANGED <<keys, keysW, res>>
    /\ UNCHANGED <<encFiles, nonces, crashed, lifeVars, cacheVars, now,
                   ghostVars, tampers, lockVars, auxVars>>

\* saveKey's last statement, m.keys[key.ID] = key, and GenerateKey's return
\* to its caller.
GenerateKeyRegister(p) ==
    /\ At(p, "gen_reg")
    /\ keys' = RegisterKey(keys, loc[p].newID, NewKey(loc[p].size))
    /\ IF loc[p].gret = "enc"
       THEN /\ pc' = [pc EXCEPT ![p] = "enc_seal"]
            /\ loc' = [loc EXCEPT ![p].ak = loc[p].newID]
            /\ UNCHANGED res
       ELSE IF loc[p].gret = "rot"
       THEN /\ pc' = [pc EXCEPT ![p] = "rot_reenc"]
            /\ UNCHANGED <<loc, res>>
       ELSE Return(p, [Res0 EXCEPT !.op = "GenerateKey", !.kind = "Ok",
                                   !.newID = loc[p].newID], {})
    /\ UNCHANGED <<keyFiles, encFiles, keysW, salts, nonces, crashed, lifeVars,
                   cacheVars, now, ghostVars, tampers, lockVars, auxVars>>

NextGen ==
    \/ GenerateKeyCall("p1")
    \/ \E keyID \in DOMAIN keys \cup {EncodeToString(MaxKeys + 1)} :
          RotateKeyCall("p1", keyID)
    \/ RotateKeyReencrypt("p1")
    \/ \E p \in Procs :
          \/ \E data \in Secrets : EncryptCall(p, data)
          \/ EncryptFind(p)
          \/ EncryptSeal(p)
          \/ \E fault \in GenFaults : GenerateKeySave(p, fault)
          \/ GenerateKeyRegister(p)
          \/ Done(p)

SpecGen == Init /\ [][NextGen]_vars

\* The step with which GenerateKey fails in p.
GenerateKeyFails(p) ==
    /\ pc[p] = "gen"
    /\ pc'[p] = "ret"

\* C23: every registered key passed the self test and has its wrapped record
\* in the key directory, the record being there before the key enters
\* m.keys; and when GenerateKey fails, in the self test or in the write, it
\* returns an error and m.keys is as it was.
C23_GenerateKeyOrdering ==
    /\ [](\A id \in DOMAIN keys :
             /\ verifyKey(keys[id].Key)
             /\ id \in DOMAIN keyFiles
             /\ keyFiles[id].rec.Key = keys[id].Key)
    /\ [][/\ DOMAIN keys' \ DOMAIN keys \subseteq DOMAIN keyFiles
          /\ \A p \in Procs :
                GenerateKeyFails(p) =>
                    /\ res'[p].kind \in {"KeyGeneration", "VerifyFailed",
                                         "SaveFailed"}
                    /\ keys' = keys]_vars

\* C23's case: a GenerateKey has failed in the write of the key file while
\* another key is registered.
C23_Witness ==
    \E p \in Procs :
        /\ pc[p] = "ret"
        /\ res[p].kind = "SaveFailed"
        /\ DOMAIN keys # {}

\* C24: an Encrypt that finds a registered Active key when it looks for one
\* selects such a key and changes neither m.keys nor the key directory in any
\* of its steps; an Encrypt that finds none writes the record of one new key,
\* registers that key, Active, leaving the other keys as they are, seals
\* with it, and a buffer it returns carries the ID of the key it selected.
C24_EncryptGeneratesOnFirstUse ==
    [][\A p \in Procs :
          (loc[p].op = "Encrypt" /\ pc'[p] # pc[p]) =>
             /\ pc[p] = "enc_find" =>
                   /\ UNCHANGED <<keys, keyFiles>>
                   /\ ActiveIDs(keys) # {} =>
                         /\ pc'[p] = "enc_seal"
                         /\ loc'[p].ak \in ActiveIDs(keys)
                   /\ ActiveIDs(keys) = {} => pc'[p] = "gen"
             /\ pc[p] = "enc_seal" =>
                   /\ UNCHANGED <<keys, keyFiles>>
                   /\ pc'[p] = "ret" => PrefixID(res'[p].val) = loc[p].ak
             /\ pc[p] = "gen" =>
                   /\ keys' = keys
                   /\ pc'[p] = "gen_reg" =>
                         /\ loc'[p].newID \notin DOMAIN keyFiles
                         /\ DOMAIN keyFiles' = DOMAIN keyFiles \cup {loc'[p].newID}
                         /\ keyFiles'[loc'[p].newID].rec.Active
                         /\ \A id \in DOMAIN keyFiles : keyFiles'[id] = keyFiles[id]
                   /\ pc'[p] # "gen_reg" => keyFiles' = keyFiles
             /\ pc[p] = "gen_reg" =>
                   /\ keyFiles' = keyFiles
                   /\ loc[p].newID \notin DOMAIN keys
                   /\ DOMAIN keys' = DOMAIN keys \cup {loc[p].newID}
                   /\ keys'[loc[p].newID].Active
                   /\ \A id \in DOMAIN keys : keys'[id] = keys[id]
                   /\ pc'[p] = "enc_seal"
                   /\ loc'[p].ak = loc[p].newID]_vars

\* C24's case: one key is registered, and two buffers Encrypt returned carry
\* its ID: the first Encrypt generated it, the second found it.
C24_Witness ==
    /\ Cardinality(DOMAIN keys) = 1
    /\ \E c, d \in issued :
          /\ c # d
          /\ PrefixID(c.ct) \in DOMAIN keys
          /\ PrefixID(d.ct) = PrefixID(c.ct)

\* ------------------------------------------------------------ C25: expiry
\* The entries a sweep at the instant t finds past their expiry, and those
\* at or past it.
PastExpiry(idx, t) == {k \in Present(idx) : idx[k].ExpiresAt < t}

AtOrPastExpiry(idx, t) == {k \in Present(idx) : idx[k].ExpiresAt <= t}

\* C25 as stated: a sweep running at the instant now removes every entry
\* with ExpiresAt <= now, the entry with ExpiresAt = now included, whatever
\* the total size is, and leaves no indexed entry with ExpiresAt <= now.
C25_SweepRemovesAtExpiry ==
    [][cleanup =>
         /\ \A k \in AtOrPastExpiry(index, now) :
               ~index'[k].present /\ ~files'[k].exists
         /\ AtOrPastExpiry(index', now) = {}]_vars

\* C25, amended: a sweep running at the instant now removes every entry with
\* ExpiresAt < now, whatever the total size is, and leaves no indexed entry
\* with ExpiresAt < now; its expiry pass keeps the entry with
\* ExpiresAt = now, which is still there after the sweep unless the entries
\* not past their expiry exceed maxSize together.
C25_SweepRemovesPastExpiry ==
    [][cleanup =>
         LET past == PastExpiry(index, now)
             rest == Present(index) \ past
         IN  /\ \A k \in past : ~index'[k].present /\ ~files'[k].exists
             /\ PastExpiry(index', now) = {}
             /\ SumSizes(index, rest) <= maxSize =>
                   \A k \in rest : index'[k] = index[k] /\ files'[k] = files[k]
             /\ past # {} =>
                   /\ lastSweep'.at = now
                   /\ lastSweep'.gone = {index[k].ExpiresAt : k \in past}
                   /\ lastSweep'.stay = {index[k].ExpiresAt : k \in rest}]_vars

\* The last sweep that found entries past their expiry ran at this instant:
\* it removed them and kept an entry whose ExpiresAt is this instant, which
\* is still indexed.
C25_Witness ==
    /\ lastSweep.at = now
    /\ lastSweep.gone # {}
    /\ now \in lastSweep.stay
    /\ \E k \in Present(index) : index[k].ExpiresAt = now /\ files[k].exists
    /\ \E k \in CacheKeys : ~index[k].present

\* ------------------------------------------------- C26: after the sweep
\* C26: when a sweep finishes, the sizes of the entries left in the index
\* add up to at most maxSize, the size counter is that sum, and index.json
\* holds the index as it is in memory.
C26_SweepPostcondition ==
    [][\A p \in Procs :
          cleanupSave(p) =>
             LET left == Present(index')
             IN  /\ SumSizes(index', left) <= maxSize
                 /\ currentSize' = SumSizes(index', left)
                 /\ diskIndex'.exists
                 /\ diskIndex'.entries = index']_vars

\* A sweep has just returned while the other goroutine is inside a call of
\* its own: of the entries of the earlier run one is left, within maxSize,
\* counted exactly and saved.
C26_Witness ==
    \E p, q \in Procs :
       /\ p # q
       /\ pc[p] = "ret" /\ res[p].op = "cleanup"
       /\ pc[q] \notin {"idle", "ret"}
       /\ \E k \in CacheKeys : ~index[k].present
       /\ \E k \in Present(index) : 2 * index[k].Size > maxSize
       /\ diskIndex.exists /\ diskIndex.entries = index
       /\ currentSize = SumSizes(index, Present(index))
       /\ currentSize <= maxSize

\* ---------------------------------------------- C27: no needless eviction
\* The entries a sweep at the instant t does not find expired.
NotExpired(idx, t) == {k \in Present(idx) : ~(t > idx[k].ExpiresAt)}

\* C27: a sweep removes an entry that is not expired only when the entries
\* that are not expired exceed maxSize together; when they fit, it removes
\* expired entries only; and the total before each eviction of the size
\* pass was above maxSize: what is left and the entry evicted last exceed
\* maxSize together (the totals before the earlier evictions are larger).
C27_SweepMinimality ==
    [][cleanup =>
         LET live == NotExpired(index, now)
             evicted == live \ Present(index')
             left == SumSizes(index', Present(index'))
         IN  /\ SumSizes(index, live) <= maxSize => evicted = {}
             /\ evicted # {} =>
                   /\ SumSizes(index, live) > maxSize
                   /\ \E e \in evicted : left + index[e].Size > maxSize
             /\ Present(index') \subseteq live]_vars

\* The size pass of a sweep removed an entry and stopped there: what it
\* kept fits in maxSize, and would not have with the entry it removed.
C27_Witness ==
    /\ lastSweep.evicted # {}
    /\ lastSweep.kept # {}
    /\ \E k \in CacheKeys : ~index[k].present /\ ~files[k].exists
    /\ \E k \in Present(index) :
          /\ index[k].CreatedAt \in lastSweep.kept
          /\ 2 * index[k].Size > maxSize
          /\ index[k].Size <= maxSize

\* --------------------------------------------------- C28: the sweep's lock
\* p is inside a sweep, between its first read of the index and the return
\* of saveIndex.
Sweeping(p) == pc[p] \in {"swp_size", "swp_save"}

\* C28: a sweep holds indexMutex as its writer from its first read of the
\* index until the index is saved; while it does, no step of another
\* goroutine changes the index, the size counter or index.json; and no two
\* sweeps are under way at once.
C28_SweepAtomicity ==
    /\ [](\A p \in Procs : Sweeping(p) => idxW = p /\ idxR = {})
    /\ [](\A p, q \in Procs : Sweeping(p) /\ Sweeping(q) => p = q)
    /\ [][\A p \in Procs :
             /\ Sweeping(p) /\ pc'[p] = pc[p] =>
                   /\ UNCHANGED <<index, currentSize, diskIndex, idxW>>
                   /\ \A k \in CacheKeys : files'[k].exists => files'[k] = files[k]
             /\ cleanupLock(p) => idxW' = p /\ idxW = "" /\ idxR = {}
             /\ cleanupSave(p) => idxW = p /\ diskIndex' = saveIndex(index')]_vars

\* A sweep that has removed an entry and not yet saved the index, with the
\* other goroutine waiting for indexMutex in Set, Delete, Clear or a sweep.
C28_Witness ==
    \E p, q \in Procs :
       /\ Sweeping(p)
       /\ pc[q] \in WantsIndexW
       /\ diskIndex.exists
       /\ \E k \in CacheKeys : diskIndex.entries[k].present /\ ~index[k].present

\* ------------------------------------------------- C29: the size counter
\* C29: whenever no call is under way, the size counter is the sum of the
\* sizes of the entries in the index.
C29_SizeCounterTracksIndex ==
    Quiescent => currentSize = SumSizes(index, Present(index))

\* ------------------------------------------------------ C30: the size cap
\* SpecCap: the goroutine, the sweep and the clock of Spec on a cache made
\* on an empty directory.
SpecCap == InitEmptyDir /\ [][Next]_vars

Mirrored == diskIndex.exists /\ diskIndex.entries = index

\* C31: every step of Set, Delete, Clear, Get or the sweep that changes the
\* index leaves index.json holding the changed index, and every such call
\* that has returned after changing or saving the index has left them equal;
\* so whenever no call is under way index.json holds the in-memory index,
\* unless nothing has been saved yet and the index is empty.
C31_IndexMirrored ==
    /\ [](Quiescent => Mirrored \/ (~diskIndex.exists /\ index = EmptyIndex))
    /\ [](\A p \in Procs :
             /\ pc[p] = "ret"
             /\ \/ res[p].op = "Set" /\ res[p].kind = "Ok"
                \/ res[p].op = "Delete" /\ res[p].found
                \/ res[p].op = "Clear"
                \/ res[p].op = "Get" /\ res[p].kind \in {"Expired", "ReadError"}
             => Mirrored)
    /\ [][index' # index \/ cleanup => diskIndex' = saveIndex(index')]_vars

\* Get has just returned ErrExpired for an entry it removed, another entry
\* is still indexed, and index.json holds exactly that index.
C31_Witness ==
    /\ Returned("p1", "Get")
    /\ res["p1"].kind = "Expired"
    /\ ~index[res["p1"].key].present
    /\ Present(index) # {}
    /\ diskIndex.exists
    /\ diskIndex.entries = index
    /\ \A k \in Present(index) : index[k].ExpiresAt >= now

\* ------------------------------------------- C32: removals that fail
\* cleanup when os.Remove fails, with an error other than "does not exist",
\* for the blobs of the keys in failed: both passes discard the error, and
\* the entries leave the index all the same.
cleanupRemoveError ==
    /\ ~crashed
    /\ idxW = ""
    /\ LET expired == ExpiredKeys(index, now)
           alive == Present(index) \ expired
           totalSize == SumSizes(index, alive)
       IN  \E items \in SortedOrders(index, alive) :
             LET evicted == IF totalSize > maxSize
                            THEN EvictOldest(index, items, 1, totalSize)
                            ELSE {}
                 deleted == expired \cup evicted
             IN  \E failed \in SUBSET {k \in deleted : files[k].exists} :
                   /\ files' = RemoveFiles(files, deleted \ failed)
                   /\ index' = RemoveKeys(index, deleted)
                   /\ currentSize' = totalSize - SumSizes(index, evicted)
                   /\ diskIndex' = saveIndex(index')
                   /\ fresh' = Forget(deleted)
                   /\ loc' = Locs("", Loc0, deleted)
    /\ UNCHANGED <<mgrVars, idxW, now, pc, res, issued, tampered, lastSweep,
                   tampers, lockVars, auxVars>>

\* Delete when os.Remove fails with an error other than "does not exist":
\* the error is returned before the counter and the index are touched.
DeleteRemoveError(p, k) ==
    /\ Idle(p)
    /\ idxW = ""
    /\ index[k].present
    /\ files[k].exists
    /\ Return(p, [Res0 EXCEPT !.op = "Delete", !.kind = "RemoveError", !.key = k,
                               !.found = TRUE], {})
    /\ UNCHANGED <<mgrVars, cacheVars, now, ghostVars, tampers, lockVars, auxVars>>

\* Get on an expired entry when the os.Remove of its c.Delete(key) fails:
\* Get drops Delete's error and returns ErrExpired.
GetExpiredRemoveError(p) ==
    /\ At(p, "get_expired")
    /\ idxW = ""
    /\ index[loc[p].key].present
    /\ files[loc[p].key].exists
    /\ Return(p, GetRes(p, "Expired", <<>>), {})
    /\ UNCHANGED <<mgrVars, cacheVars, now, ghostVars, tampers, lockVars, auxVars>>

\* SpecRemove: one goroutine storing, reading and deleting plain entries, the
\* sweep and the clock, in a directory where a removal may fail.  Blobs
\* leave the directory through the cache only.
NextRemove ==
    \/ \E k \in CacheKeys : SetCall("p1", k, [i \in 1..30 |-> Raw(1)], FALSE)
    \/ SetBody("p1")
    \/ \E k \in CacheKeys : GetCall("p1", k)
    \/ GetCheck("p1")
    \/ GetRead("p1")
    \/ GetExpired("p1")
    \/ GetExpiredRemoveError("p1")
    \/ \E k \in CacheKeys : DeleteCall("p1", k)
    \/ \E k \in CacheKeys : DeleteRemoveError("p1", k)
    \/ Done("p1")
    \/ cleanupRemoveError
    \/ Tick

SpecRemove == Init /\ [][NextRemove]_vars

\* C32: when an entry leaves the index, by Get's lazy expiry, by the sweep
\* or by Delete, its blob is gone from the directory, also when a removal
\* has failed; and whenever no call is under way every indexed entry has
\* its blob in the directory.
C32_RemovalComplete ==
    /\ [](Quiescent => \A k \in Present(index) : files[k].exists)
    /\ [][\A k \in CacheKeys :
             index[k].present /\ ~index'[k].present => ~files'[k].exists]_vars

\* ------------------------------------------------- C33: self-healing Get
\* SpecHeal: one goroutine storing and reading plain and encrypted entries
\* and the sweep, in a directory where blobs are lost and where the last
\* byte of an encrypted blob, a byte of its tag, may be changed.  The clock
\* stands still, so no entry expires.
NextHeal ==
    \/ \E k \in CacheKeys, encrypted \in BOOLEAN :
          SetCall("p1", k, [i \in 1..30 |-> Raw(1)], encrypted)
    \/ \E k \in CacheKeys : GetCall("p1", k)
    \/ SetBody("p1")
    \/ GetCheck("p1")
    \/ GetRead("p1")
    \/ GetHeal("p1")
    \/ GetDecrypt("p1")
    \/ EncryptStep("p1")
    \/ Done("p1")
    \/ cleanup
    \/ \E k \in CacheKeys : LoseBlob(k)
    \/ \E k \in CacheKeys :
          Tamper(k, 1 + idChars + nonceSize + 30 + gcmTagSize, Raw(0))

SpecHeal == Init /\ [][NextHeal]_vars

\* Get returns to p on this step.
GetReturns(p) == pc[p] # "ret" /\ pc'[p] = "ret" /\ res'[p].op = "Get"

\* C33: a Get(k) that found a non-expired entry and could not read its blob
\* returns the read error with k out of the index, the size counter lower
\* by the size of the entry it removed and the other entries as they were;
\* a Get of a key that is not indexed returns ErrNotFound, so the next
\* Get(k) does; and a Get whose blob was read and not decrypted returns the
\* error of Decrypt and no payload, and leaves the cache as it was.
C33_SelfHealing ==
    /\ [](\A p \in Procs :
             Returned(p, "Get") /\ res[p].kind = "ReadError"
             => ~index[res[p].key].present)
    /\ [][\A p \in Procs :
             /\ GetReturns(p) /\ pc[p] = "get_read" /\ ~files[loc[p].key].exists
                => FALSE
             /\ pc[p] = "get_read" /\ ~files[loc[p].key].exists /\ pc'[p] # pc[p]
                => pc'[p] = "get_heal"
             /\ GetReturns(p) /\ pc[p] = "get_heal" =>
                   LET k == loc[p].key
                   IN  /\ res'[p].kind = "ReadError"
                       /\ res'[p].val = <<>>
                       /\ ~index'[k].present
                       /\ ~After(loc[p].checkTime, loc[p].entry.ExpiresAt)
                       /\ index[k].present => index[k] = loc[p].entry
                       /\ currentSize' = currentSize -
                             (IF index[k].present THEN loc[p].entry.Size ELSE 0)
                       /\ \A j \in CacheKeys \ {k} : index'[j] = index[j]
                       /\ diskIndex'.entries = index'
             /\ GetReturns(p) /\ pc[p] = "idle" /\ ~index[res'[p].key].present
                => res'[p].kind = "NotFound"
             /\ GetReturns(p) /\ pc[p] = "get_dec" =>
                   LET d == Decrypt(keys, loc[p].data)
                   IN  /\ res'[p].kind = d.kind
                       /\ d.kind # "Ok" => res'[p].val = <<>>
                       /\ res'[p].tampered => d.kind = "DecryptFailed"
                       /\ UNCHANGED cacheVars]_vars

\* Get has just returned a read error for a key whose entry it removed; the
\* other key is still indexed, with an encrypted entry.
C33_Witness ==
    /\ Returned("p1", "Get")
    /\ res["p1"].kind = "ReadError"
    /\ ~index[res["p1"].key].present
    /\ \E j \in Present(index) : index[j].Encrypted /\ files[j].exists
    /\ currentSize >= SumSizes(index, Present(index))

\* ---------------------------------------- C34: lazy deletion and a new Set
\* p is in the c.Delete(key) of a Get that found its entry expired or its
\* blob unreadable, and since Get looked the key up a Set of the same key
\* has returned, whose entry and blob nothing has touched.
NewerEntry(p) ==
    /\ loc[p].op = "Get"
    /\ pc[p] = "del_lock"
    /\ fresh[loc[p].key].has
    /\ loc[p].expect # fresh[loc[p].key]

\* C34: when Get's deletion runs after a Set of the same key that completed
\* since Get looked the key up, it leaves the entry and the blob of that Set
\* in place, and Get returns.
C34_LazyDeleteKeepsNewer ==
    [][\A p \in Procs :
          NewerEntry(p) /\ pc'[p] # pc[p] =>
             /\ index'[loc[p].key] = index[loc[p].key]
             /\ files'[loc[p].key] = files[loc[p].key]
             /\ pc'[p] = "ret"]_vars

\* ------------------------------------------ C35: Get beside Set and Delete
\* Set's os.WriteFile seen from a reader that holds no lock: the file is
\* truncated and written piece by piece, and here the first half is there.
SetWriteBegin(p) ==
    /\ At(p, "set_body")
    /\ Admitted(currentSize, Len(loc[p].data))
    /\ LET k == loc[p].key
           data == loc[p].data
       IN  /\ files' = [files EXCEPT
                           ![k] = [exists |-> TRUE,
                                   data |-> SubSeq(data, 1, Len(data) \div 2)]]
           /\ fresh' = Forget({k})
           /\ loc' = Locs(p, loc[p], {k})
    /\ pc' = [pc EXCEPT ![p] = "set_write"]
    /\ UNCHANGED <<mgrVars, index, diskIndex, currentSize, idxW, now, res, issued,
                   tampered, lastSweep, tampers, lockVars, auxVars>>

\* os.WriteFile returns, and Set goes on to the index entry, the size counter
\* and saveIndex.
SetWriteEnd(p) ==
    /\ At(p, "set_write")
    /\ LET k == loc[p].key
           data == loc[p].data
           newSize == Len(data)
       IN  /\ files' = [files EXCEPT ![k] = [exists |-> TRUE, data |-> data]]
           /\ index' = [index EXCEPT ![k] = NewEntry(newSize, now, loc[p].enc)]
           /\ currentSize' = currentSize + newSize
           /\ diskIndex' = saveIndex(index')
           /\ fresh' = [fresh EXCEPT ![k] = [has |-> TRUE, P |-> loc[p].P,
                                             exp |-> now + ttl]]
           /\ tampered' = [tampered EXCEPT ![k] = FALSE]
           /\ Return(p, [Res0 EXCEPT !.op = "Set", !.kind = "Ok", !.key = k], {k})
    /\ idxW' = ""
    /\ UNCHANGED <<mgrVars, now, issued, lastSweep, tampers, lockVars, auxVars>>

\* SpecMix: one goroutine reading key "a" while another stores plain and
\* encrypted payloads under it and deletes it, and the sweep.  The clock
\* stands still.
NextMix ==
    \/ GetCall("p1", "a")
    \/ GetCheck("p1")
    \/ GetRead("p1")
    \/ GetHeal("p1")
    \/ GetDecrypt("p1")
    \/ \E data \in Payloads, encrypted \in BOOLEAN :
          SetCall("p2", "a", data, encrypted)
    \/ EncryptStep("p2")
    \/ SetBody("p2")
    \/ SetWriteBegin("p2")
    \/ SetWriteEnd("p2")
    \/ DeleteCall("p2", "a")
    \/ \E p \in Procs : Done(p)
    \/ cleanup

SpecMix == Init /\ [][NextMix]_vars

\* The payloads callers have handed to Set: those of this run, and the blob
\* the earlier run stored.
SetPayloads == Payloads \cup {OldBlob(60)}

\* C35: a Get that returns data returns a payload that was handed to a Set
\* of its key: not ciphertext, not part of a blob.
C35_GetConsistent ==
    \A p \in Procs :
        Returned(p, "Get") /\ res[p].kind = "Ok" => res[p].val \in SetPayloads

\* ------------------------------------------------ C36: the cache restarts
\* SpecReopen: one goroutine storing and reading plain entries, the clock,
\* blobs lost from the directory, and the process started again on the same
\* directories.
NextReopen ==
    \/ \E k \in CacheKeys : SetCall("p1", k, [i \in 1..30 |-> Raw(1)], FALSE)
    \/ \E k \in CacheKeys : GetCall("p1", k)
    \/ SetBody("p1")
    \/ GetCheck("p1")
    \/ GetExpired("p1")
    \/ GetRead("p1")
    \/ GetHeal("p1")
    \/ Done("p1")
    \/ \E k \in CacheKeys : LoseBlob(k)
    \/ Tick
    \/ Restart("pw")

SpecReopen == Init /\ [][NextReopen]_vars

\* The entries of index.json whose blob is in the directory.
Kept == {k \in CacheKeys : diskIndex.exists /\ diskIndex.entries[k].present
                           /\ files[k].exists}

\* p takes a step of Get.
GetSteps(p) ==
    /\ pc'[p] # pc[p]
    /\ \/ loc[p].op = "Get"
       \/ loc'[p].op = "Get"
       \/ pc[p] = "idle" /\ res'[p].op = "Get"

\* C36: NewFileCache on the directory of an earlier instance comes up with
\* exactly the entries of index.json whose blob exists, as index.json has
\* them, with the size counter at the sum of their sizes, and writes
\* nothing; and in the new instance a Get of an indexed key whose entry is
\* not expired and whose blob is there returns the blob, which is the
\* payload of the Set that stored it.
C36_RestartRecovery ==
    /\ [][boot'.runs > boot.runs =>
            /\ ~crashed'
            /\ Present(index') = Kept
            /\ \A k \in Kept : index'[k] = diskIndex.entries[k]
            /\ currentSize' = SumSizes(diskIndex.entries, Kept)
            /\ UNCHANGED <<files, diskIndex>>]_vars
    /\ [](\A k \in CacheKeys :
             fresh[k].has => /\ index[k].present
                             /\ files[k].exists
                             /\ files[k].data = fresh[k].P)
    /\ [][\A p \in Procs :
             boot.runs > 1 /\ boot'.runs = boot.runs /\ GetSteps(p) =>
                /\ pc[p] = "idle" =>
                      LET k == IF pc'[p] = "ret" THEN res'[p].key ELSE loc'[p].key
                      IN  /\ pc'[p] = "ret" <=> ~index[k].present
                          /\ pc'[p] = "ret" => res'[p].kind = "NotFound"
                /\ pc[p] = "get_check" =>
                      (pc'[p] = "get_read" <=>
                          ~(now > loc[p].entry.ExpiresAt))
                /\ pc[p] = "get_read" /\ files[loc[p].key].exists =>
                      /\ pc'[p] = "ret"
                      /\ res'[p].kind = "Ok"
                      /\ res'[p].val = files[loc[p].key].data]_vars

\* In the instance that came up after the restart, which found one entry of
\* index.json without its blob and dropped it, and has saved nothing since,
\* Get has returned the payload of the entry that was kept.
C36_Witness ==
    /\ boot.runs > 1
    /\ Returned("p1", "Get")
    /\ res["p1"].kind = "Ok"
    /\ res["p1"].val = [i \in 1..30 |-> Raw(1)]
    /\ index[res["p1"].key].present
    /\ currentSize = index[res["p1"].key].Size
    /\ \E j \in CacheKeys \ {res["p1"].key} :
          /\ diskIndex.entries[j].present
          /\ ~index[j].present
          /\ ~files[j].exists

\* ------------------------------------------------ worker pool (pool.go)
\* Everything a step of the worker pool leaves alone.
besidesPool ==
    <<mgrVars, cacheVars, now, procVars, ghostVars, tampers, lockVars, sess>>

\* The goroutines Start has launched for this BatchProcessor.
Workers == 1..pool.workers

\* concurrent.NewBatchProcessor(workers, batchSize).
NewBatchProcessorCall(workers, batchSize) ==
    /\ ~pool.made
    /\ pool' = NewBatchProcessor(workers, batchSize)
    /\ UNCHANGED besidesPool

\* ProcessBatch is called with n UIDs and a context that is never cancelled:
\* Pool.Start adds one to the wait group and launches a worker, p.workers
\* times; Stop is deferred; the batch loop starts at i = 0.
ProcessBatchCall(n) ==
    /\ pool.made
    /\ pool.pc = "idle"
    /\ pool.calls < MaxCalls
    /\ pool' = [pool EXCEPT
                  !.wg = pool.wg + pool.workers,
                  !.worker = [w \in 1..MaxWorkers |->
                                 IF w \in Workers THEN "select" ELSE "none"],
                  !.pc = "loop", !.n = n, !.i = 0, !.end = 0, !.sent = 0,
                  !.got = 0]
    /\ UNCHANGED besidesPool

\* The test of the batch loop: another batch uids[i:end], or the return, on
\* which the deferred Stop runs.
ProcessBatchLoop ==
    /\ pool.pc = "loop"
    /\ pool' = IF pool.i < pool.n
               THEN [pool EXCEPT
                       !.end = IF pool.i + pool.batchSize > pool.n
                               THEN pool.n ELSE pool.i + pool.batchSize,
                       !.sent = pool.i, !.pc = "submit"]
               ELSE [pool EXCEPT !.pc = "stop"]
    /\ UNCHANGED besidesPool

\* Pool.Submit: p.jobs <- job. The channel is unbuffered, so the send goes
\* through only together with the receive of a worker that waits in its
\* select; that worker goes on to job.Do. After the last job of the batch
\* the caller starts to collect.
Submit(w) ==
    /\ pool.pc = "submit"
    /\ pool.sent < pool.end
    /\ ~pool.jobsClosed
    /\ w \in Workers
    /\ pool.worker[w] = "select"
    /\ pool' = [pool EXCEPT
                  !.worker[w] = "do",
                  !.sent = pool.sent + 1,
                  !.got = pool.i,
                  !.pc = IF pool.sent + 1 = pool.end
                         THEN "collect" ELSE "submit"]
    /\ UNCHANGED besidesPool

\* Pool.Submit on the channel an earlier Stop has closed: the send panics.
SubmitClosed ==
    /\ pool.pc = "submit"
    /\ pool.sent < pool.end
    /\ pool.jobsClosed
    /\ pool' = [pool EXCEPT !.pc = "panic"]
    /\ UNCHANGED besidesPool

\* worker: job.Do(ctx) of an EmailFetchJob returns nil; the worker goes on
\* to send it on p.results.
workerDo(w) ==
    /\ w \in Workers
    /\ pool.worker[w] = "do"
    /\ pool' = [pool EXCEPT !.worker[w] = "send"]
    /\ UNCHANGED besidesPool

\* ProcessBatch collects one result: <-b.pool.Results() together with the
\* send p.results <- ... of a worker, which goes back to its select. After
\* the last result of the batch the loop goes on with i += batchSize.
Collect(w) ==
    /\ pool.pc = "collect"
    /\ pool.got < pool.end
    /\ w \in Workers
    /\ pool.worker[w] = "send"
    /\ pool' = [pool EXCEPT
                  !.worker[w] = "select",
                  !.got = pool.got + 1,
                  !.i = IF pool.got + 1 = pool.end
                        THEN pool.i + pool.batchSize ELSE pool.i,
                  !.pc = IF pool.got + 1 = pool.end
                         THEN "loop" ELSE "collect"]
    /\ UNCHANGED besidesPool

\* worker: the receive from the closed jobs channel yields !ok; the worker
\* returns and its deferred wg.Done runs.
workerReturn(w) ==
    /\ w \in Workers
    /\ pool.worker[w] = "select"
    /\ pool.jobsClosed
    /\ pool' = [pool EXCEPT !.worker[w] = "exit", !.wg = pool.wg - 1]
    /\ UNCHANGED besidesPool

\* Pool.Stop, first statement: close(p.jobs); closing a closed channel
\* panics.
StopClose ==
    /\ pool.pc = "stop"
    /\ pool' = IF pool.jobsClosed
               THEN [pool EXCEPT !.pc = "panic"]
               ELSE [pool EXCEPT !.jobsClosed = TRUE, !.pc = "stop_wait"]
    /\ UNCHANGED besidesPool

\* Pool.Stop, the rest: p.wg.Wait() returns when every worker has returned;
\* results and done are closed and ProcessBatch returns.
StopWait ==
    /\ pool.pc = "stop_wait"
    /\ pool.wg = 0
    /\ pool' = [pool EXCEPT !.resultsClosed = TRUE, !.doneClosed = TRUE,
                            !.pc = "idle", !.calls = pool.calls + 1]
    /\ UNCHANGED besidesPool

\* A step of the main goroutine inside ProcessBatch, or of a worker.
PoolStep ==
    \/ ProcessBatchLoop
    \/ \E w \in 1..MaxWorkers : Submit(w)
    \/ SubmitClosed
    \/ \E w \in 1..MaxWorkers : workerDo(w)
    \/ \E w \in 1..MaxWorkers : Collect(w)
    \/ \E w \in 1..MaxWorkers : workerReturn(w)
    \/ StopClose
    \/ StopWait

NextPool ==
    \/ \E workers \in 1..MaxWorkers, batchSize \in 1..MaxBatchSize :
          NewBatchProcessorCall(workers, batchSize)
    \/ \E n \in 0..MaxUIDs : ProcessBatchCall(n)
    \/ PoolStep

SpecPool == InitEmptyDir /\ [][NextPool]_vars

\* A call of ProcessBatch is under way.
InProcessBatch == pool.pc \in {"loop", "submit", "collect", "stop", "stop_wait"}

\* C37: ProcessBatch terminates for every number of workers >= 1, every
\* batchSize >= 1 and every list of UIDs: it panics nowhere, while a call is
\* under way the main goroutine or a worker can always take a step (nobody
\* is blocked forever on the jobs or the results channel), a call that has
\* returned has collected one result per UID and left no worker behind, and
\* a second call on the same BatchProcessor is no different.
C37_ProcessBatchTerminates ==
    /\ pool.pc # "panic"
    /\ InProcessBatch => ENABLED PoolStep
    /\ pool.pc = "idle" /\ pool.calls > 0 =>
          /\ pool.i >= pool.n
          /\ pool.wg = 0
          /\ \A w \in Workers : pool.worker[w] = "exit"

\* ------------------------------------------- session store (session.go)
\* Everything a step of the session store leaves alone.
besidesSess ==
    <<mgrVars, cacheVars, now, procVars, ghostVars, tampers, lockVars, pool>>

\* Callers blocked in s.mu.Lock(). sync.RWMutex lets no new reader in while
\* a writer waits.
LockWaiters == {p \in Procs : sess.pc[p] \in {"set_lock", "del_lock"}}

\* FileStorage.Get(key) is called and reaches s.mu.RLock().
FileStorageGetCall(p) ==
    /\ sess.pc[p] = "idle"
    /\ sess' = [sess EXCEPT !.pc[p] = "get_rlock", !.op[p] = "Get",
                            !.ret[p] = "none"]
    /\ UNCHANGED besidesSess

\* Get: s.mu.RLock() is granted; the RUnlock is deferred to Get's return.
FileStorageGetRLock(p) ==
    /\ sess.pc[p] = "get_rlock"
    /\ sess.writer = ""
    /\ LockWaiters = {}
    /\ sess' = [sess EXCEPT !.readers = sess.readers \cup {p},
                            !.pc[p] = "get_read"]
    /\ UNCHANGED besidesSess

\* Get under the read lock: no file, (nil, nil); a session with
\* time.Now().After(data.ExpiresAt), the call s.Delete(key), which starts
\* with s.mu.Lock() while Get still holds the read lock; otherwise
\* data.Value. On the two returns the deferred RUnlock runs.
FileStorageGetRead(p) ==
    /\ sess.pc[p] = "get_read"
    /\ sess' = IF ~sess.file.exists
               THEN [sess EXCEPT !.readers = sess.readers \ {p},
                                 !.pc[p] = "idle", !.ret[p] = "nil"]
               ELSE IF After(now, sess.file.ExpiresAt)
               THEN [sess EXCEPT !.pc[p] = "del_lock"]
               ELSE [sess EXCEPT !.readers = sess.readers \ {p},
                                 !.pc[p] = "idle", !.ret[p] = "Value"]
    /\ UNCHANGED besidesSess

\* FileStorage.Set(key, val, exp) is called and reaches s.mu.Lock().
FileStorageSetCall(p, exp) ==
    /\ sess.pc[p] = "idle"
    /\ sess' = [sess EXCEPT !.pc[p] = "set_lock", !.op[p] = "Set",
                            !.exp[p] = exp, !.ret[p] = "none"]
    /\ UNCHANGED besidesSess

\* FileStorage.Delete(key) is called and reaches s.mu.Lock().
FileStorageDeleteCall(p) ==
    /\ sess.pc[p] = "idle"
    /\ sess' = [sess EXCEPT !.pc[p] = "del_lock", !.op[p] = "Delete",
                            !.ret[p] = "none"]
    /\ UNCHANGED besidesSess

\* s.mu.Lock() in Set or Delete is granted: no writer and no reader holds
\* the mutex. The mutex does not know its holders: a caller's own read lock
\* counts like anyone's.
FileStorageLock(p) ==
    /\ p \in LockWaiters
    /\ sess.writer = ""
    /\ sess.readers = {}
    /\ sess' = [sess EXCEPT !.writer = p,
                            !.pc[p] = IF sess.pc[p] = "set_lock"
                                      THEN "set_body" ELSE "del_body"]
    /\ UNCHANGED besidesSess

\* Set under the write lock: the file is written with
\* ExpiresAt = time.Now().Add(exp); the deferred Unlock runs.
FileStorageSetBody(p) ==
    /\ sess.pc[p] = "set_body"
    /\ sess' = [sess EXCEPT
                  !.file = [exists |-> TRUE, ExpiresAt |-> now + sess.exp[p]],
                  !.writer = "", !.pc[p] = "idle", !.ret[p] = "nil"]
    /\ UNCHANGED besidesSess

\* Delete under the write lock: os.Remove, a missing file being no error;
\* the deferred Unlock runs. Called by Get, Delete returns into Get, which
\* returns (nil, nil) and runs its deferred RUnlock.
FileStorageDeleteBody(p) ==
    /\ sess.pc[p] = "del_body"
    /\ sess' = [sess EXCEPT
                  !.file = NoSession,
                  !.writer = "",
                  !.readers = IF sess.op[p] = "Get"
                              THEN sess.readers \ {p} ELSE sess.readers,
                  !.pc[p] = "idle", !.ret[p] = "nil"]
    /\ UNCHANGED besidesSess

\* A step of a caller inside Get, Set or Delete.
SessStep ==
    \E p \in Procs :
        \/ FileStorageGetRLock(p)
        \/ FileStorageGetRead(p)
        \/ FileStorageLock(p)
        \/ FileStorageSetBody(p)
        \/ FileStorageDeleteBody(p)

NextSession ==
    \/ \E p \in Procs : FileStorageGetCall(p)
    \/ \E p \in Procs, exp \in 1..MaxExp : FileStorageSetCall(p, exp)
    \/ \E p \in Procs : FileStorageDeleteCall(p)
    \/ SessStep
    \/ Tick

SpecSession == InitEmptyDir /\ [][NextSession]_vars

\* C38: Get on a session whose ExpiresAt is in the past removes the file
\* and returns (nil, nil) without ever blocking on the storage's own
\* read-write lock, and a later Get returns too: no caller waits for the
\* write lock while it holds the read lock itself, and while any call is
\* under way some caller can take a step.
C38_GetExpiredReturns ==
    /\ \A p \in Procs : ~(p \in LockWaiters /\ p \in sess.readers)
    /\ (\E p \in Procs : sess.pc[p] # "idle") => ENABLED SessStep

====
